---------------------------- MODULE Spec2Model ----------------------------
(***************************************************************************)
(* Model of the Wikimedia Commons image-search MCP server:                 *)
(*   - buildWikimediaApiUrl / fetchWikimediaImages (the source API call),  *)
(*   - parseWikimediaResponse (the response normalizer),                   *)
(*   - generateThumbnailComposite (concurrent fetcher + grid compositor),  *)
(*   - the wikimedia_search_images tool handler.                           *)
(*                                                                         *)
(* Encoding conventions                                                    *)
(*   - an optional JavaScript value (a field that may be undefined) is a   *)
(*     sequence of length 0 (absent) or 1 (present): None, Some(v);        *)
(*   - a thumbnail URL ".../<px>px-<file>" is the record                   *)
(*     [px |-> optional width, file |-> name]; the empty string is         *)
(*     EmptyUrl;                                                           *)
(*   - a message built by a template literal is the sequence of its        *)
(*     pieces, concatenation is \o.                                        *)
(***************************************************************************)
EXTENDS Integers, Sequences, FiniteSets, TLC

VARIABLES
    pc,           \* position of the operation under way
    params,       \* SearchImagesInput: [limit, offset, license, include_thumbnails]
    source,       \* the external index: how many items match, and whether it answers 200
    request,      \* optional URL of the search request sent to the source
    wire,         \* optional raw document as the source sent it (the JSON on the wire)
    apiResponse,  \* optional raw document (WikimediaApiResponse), the object the caller holds
    parsed,       \* optional outcome of the fetch and the parse (a return or a throw)
    images,       \* optional argument of the generateThumbnailComposite call under way
    network,      \* what the thumbnail of the record at each 0-based position does when fetched
    fetches,      \* the thumbnail fetches issued so far, in order: [position, url]
    tasks,        \* the promises of limitedImages.map(async ...), one per retained record
    encoder,      \* what the encoding of the canvas does: "ok" or "throws"
    canvas,       \* optional canvas handed to the encoder: [width, height, layers]
    composite,    \* optional outcome of generateThumbnailComposite (a return or a throw)
    content,      \* the content array the tool handler has built so far
    response,     \* optional response of the tool handler: [content, isError]
    call          \* optional call of a helper function on its own: [fn, args, value]

searchVars == <<params, source, request, wire, apiResponse, parsed>>
compositeVars == <<images, network, fetches, tasks, encoder, canvas, composite>>
toolVars == <<content, response>>
vars == <<pc, searchVars, compositeVars, toolVars, call>>

---------------------------------------------------------------------------
(* Optional values *)

None == <<>>
Some(v) == <<v>>
IsSome(o) == Len(o) > 0
Get(o) == o[1]

(* a ?? d *)
OrElse(o, d) == IF IsSome(o) THEN Get(o) ELSE d

Min(a, b) == IF a <= b THEN a ELSE b
Max(a, b) == IF a >= b THEN a ELSE b

---------------------------------------------------------------------------
(* Program constants (constants.ts) *)

MAX_RESULTS_LIMIT == 50
THUMBNAIL_SIZE == 256
MAX_IMAGES_IN_COMPOSITE == 15

---------------------------------------------------------------------------
(* Thumbnail URLs *)

EmptyUrl == [px |-> None, file |-> ""]
ThumbUrl(width, name) == [px |-> Some(width), file |-> name]

(* JavaScript truthiness of an optional string / an optional number *)
TruthyUrl(o) == IsSome(o) /\ Get(o) # EmptyUrl
TruthyNum(o) == IsSome(o) /\ Get(o) # 0

---------------------------------------------------------------------------
(* Strings of free text: a string is the sequence of its runs, a run being a   *)
(* character and the number of times it is repeated; adjacent runs differ in   *)
(* their character, and the empty string is <<>>                               *)

Run(c, n) == [ch |-> c, n |-> n]

RECURSIVE TextLen(_)
TextLen(t) == IF t = <<>> THEN 0 ELSE Head(t).n + TextLen(Tail(t))

(* s followed by t *)
Concat(s, t) ==
    IF s = <<>> THEN t
    ELSE IF t = <<>> THEN s
    ELSE IF s[Len(s)].ch = t[1].ch
    THEN SubSeq(s, 1, Len(s) - 1) \o <<Run(t[1].ch, s[Len(s)].n + t[1].n)>> \o Tail(t)
    ELSE s \o t

(* str.substring(0, k) *)
RECURSIVE Substring(_, _)
Substring(t, k) ==
    IF t = <<>> \/ k <= 0 THEN <<>>
    ELSE IF Head(t).n >= k THEN <<Run(Head(t).ch, k)>>
    ELSE <<Head(t)>> \o Substring(Tail(t), k - Head(t).n)

(* JavaScript truthiness of an optional string *)
TruthyText(o) == IsSome(o) /\ Get(o) # <<>>

(* truncateString(str, maxLength): undefined for an absent or empty string *)
truncateString(str, maxLength) ==
    IF ~TruthyText(str) THEN None
    ELSE IF TextLen(Get(str)) <= maxLength THEN str
    ELSE Some(Concat(Substring(Get(str), maxLength), <<Run(".", 3)>>))

HasCloser(t) == \E k \in 1..Len(t) : t[k].ch = ">"

(* html.replace(/<[^>]*>/g, ""): scanning from the left, each "<" that has a   *)
(* ">" after it is removed together with everything up to the first such ">"   *)
RECURSIVE StripTags(_, _)
StripTags(t, inTag) ==
    IF t = <<>> THEN <<>>
    ELSE IF inTag
    THEN IF Head(t).ch = ">"
         THEN IF Head(t).n > 1
              THEN Concat(<<Run(">", Head(t).n - 1)>>, StripTags(Tail(t), FALSE))
              ELSE StripTags(Tail(t), FALSE)
         ELSE StripTags(Tail(t), TRUE)
    ELSE IF Head(t).ch = "<" /\ HasCloser(Tail(t)) THEN StripTags(Tail(t), TRUE)
    ELSE Concat(<<Head(t)>>, StripTags(Tail(t), FALSE))

(* stripHtml(html): undefined for an absent or empty string *)
stripHtml(html) ==
    IF ~TruthyText(html) THEN None ELSE Some(StripTags(Get(html), FALSE))

---------------------------------------------------------------------------
(* getAspectRatio *)

MAX_COMPONENT == 21

Abs(x) == IF x < 0 THEN -x ELSE x

RECURSIVE Gcd(_, _)
Gcd(a, b) == IF b = 0 THEN a ELSE Gcd(b, a % b)

(* JavaScript numbers are IEEE 754 doubles. A double is kept as [n, e], the    *)
(* number n * 2^e, with n a natural number of at most 53 significant bits,    *)
(* written as the sequence of its digits in base 2^13, lowest first, without  *)
(* leading zero digits (0 is <<>>). Dimensions are below 2^13.                *)

LIMB_BITS == 13
SIGNIFICAND_BITS == 53
QUOTIENT_BITS == 80

Limb == 2 ^ LIMB_BITS

RECURSIVE BigOf(_)
BigOf(x) == IF x = 0 THEN <<>> ELSE <<x % Limb>> \o BigOf(x \div Limb)

RECURSIVE IntOf(_)
IntOf(a) == IF a = <<>> THEN 0 ELSE Head(a) + Limb * IntOf(Tail(a))

RECURSIVE Canon(_)
Canon(a) ==
    IF a = <<>> THEN <<>>
    ELSE IF a[Len(a)] = 0 THEN Canon(SubSeq(a, 1, Len(a) - 1))
    ELSE a

RECURSIVE BigAddCarry(_, _, _)
BigAddCarry(a, b, carry) ==
    IF a = <<>> /\ b = <<>> THEN (IF carry = 0 THEN <<>> ELSE <<carry>>)
    ELSE LET x == IF a = <<>> THEN 0 ELSE Head(a)
             y == IF b = <<>> THEN 0 ELSE Head(b)
             sum == x + y + carry
         IN  <<sum % Limb>>
             \o BigAddCarry(IF a = <<>> THEN a ELSE Tail(a),
                            IF b = <<>> THEN b ELSE Tail(b), sum \div Limb)

BigAdd(a, b) == BigAddCarry(a, b, 0)

(* a - b for a >= b *)
RECURSIVE BigSubBorrow(_, _, _)
BigSubBorrow(a, b, borrow) ==
    IF a = <<>> THEN <<>>
    ELSE LET y == IF b = <<>> THEN 0 ELSE Head(b)
             diff == Head(a) - y - borrow
         IN  <<diff % Limb>>
             \o BigSubBorrow(Tail(a), IF b = <<>> THEN b ELSE Tail(b),
                             IF diff < 0 THEN 1 ELSE 0)

BigSub(a, b) == Canon(BigSubBorrow(a, b, 0))

(* -1, 0 or 1 as a is below, equal to or above b *)
RECURSIVE BigCmp(_, _)
BigCmp(a, b) ==
    IF Len(a) # Len(b) THEN (IF Len(a) < Len(b) THEN -1 ELSE 1)
    ELSE IF a = <<>> THEN 0
    ELSE IF a[Len(a)] # b[Len(b)] THEN (IF a[Len(a)] < b[Len(b)] THEN -1 ELSE 1)
    ELSE BigCmp(SubSeq(a, 1, Len(a) - 1), SubSeq(b, 1, Len(b) - 1))

(* a * k + carry for a small k *)
RECURSIVE BigMulSmall(_, _, _)
BigMulSmall(a, k, carry) ==
    IF a = <<>> THEN BigOf(carry)
    ELSE LET prod == Head(a) * k + carry
         IN  <<prod % Limb>> \o BigMulSmall(Tail(a), k, prod \div Limb)

(* quotient and remainder of a by a small d, the digits taken highest first *)
RECURSIVE BigDivSmall(_, _)
BigDivSmall(a, d) ==
    IF a = <<>> THEN [q |-> <<>>, r |-> 0]
    ELSE LET high == BigDivSmall(Tail(a), d)
             cur == high.r * Limb + Head(a)
         IN  [q |-> Canon(<<cur \div d>> \o high.q), r |-> cur % d]

(* a * 2^k and floor(a / 2^k) *)
BigShl(a, k) ==
    IF a = <<>> THEN <<>>
    ELSE [i \in 1..(k \div LIMB_BITS) |-> 0]
         \o Canon(BigMulSmall(a, 2 ^ (k % LIMB_BITS), 0))

BigShr(a, k) ==
    IF k \div LIMB_BITS >= Len(a) THEN <<>>
    ELSE BigDivSmall(SubSeq(a, (k \div LIMB_BITS) + 1, Len(a)), 2 ^ (k % LIMB_BITS)).q

(* number of significant bits *)
BitLen(a) ==
    IF a = <<>> THEN 0
    ELSE (Len(a) - 1) * LIMB_BITS
         + (CHOOSE k \in 1..LIMB_BITS : 2 ^ (k - 1) <= a[Len(a)] /\ a[Len(a)] < 2 ^ k)

(* the double nearest to n * 2^e, or to a number just above it when sticky,   *)
(* ties to the even significand                                               *)
RoundToDouble(n, e, sticky) ==
    IF BitLen(n) <= SIGNIFICAND_BITS THEN [n |-> n, e |-> e]
    ELSE LET s == BitLen(n) - SIGNIFICAND_BITS
             q == BigShr(n, s)
             rest == BigCmp(BigSub(n, BigShl(q, s)), BigShl(<<1>>, s - 1))
             up == rest > 0 \/ (rest = 0 /\ (sticky \/ q[1] % 2 = 1))
         IN  [n |-> IF up THEN BigAdd(q, <<1>>) ELSE q, e |-> e + s]

(* a / b for positive integers a and b *)
FloatDiv(a, b) ==
    LET qr == BigDivSmall(BigShl(BigOf(a), QUOTIENT_BITS), b)
    IN  RoundToDouble(qr.q, -QUOTIENT_BITS, qr.r # 0)

(* x * k for a positive integer k *)
FloatMul(x, k) == RoundToDouble(Canon(BigMulSmall(x.n, k, 0)), x.e, FALSE)

(* the significands of x and y over their common exponent *)
Aligned(x, y) ==
    LET e == Min(x.e, y.e)
    IN  [a |-> BigShl(x.n, x.e - e), b |-> BigShl(y.n, y.e - e), e |-> e]

(* Math.abs(x - y) *)
FloatAbsDiff(x, y) ==
    LET al == Aligned(x, y)
    IN  RoundToDouble(IF BigCmp(al.a, al.b) >= 0 THEN BigSub(al.a, al.b)
                      ELSE BigSub(al.b, al.a), al.e, FALSE)

(* x < y *)
FloatLess(x, y) == LET al == Aligned(x, y) IN BigCmp(al.a, al.b) < 0

(* Math.round(x) for x >= 0: the integer nearest to x, a half rounded up *)
MathRound(x) ==
    IF x.e >= 0 THEN IntOf(BigShl(x.n, x.e))
    ELSE IntOf(BigShr(BigAdd(x.n, BigShl(<<1>>, -x.e - 1)), -x.e))

(* the candidate for denominator h: Math.min(21, Math.max(1, Math.round(targetRatio * h))) *)
CandidateWidth(targetRatio, h) ==
    Min(MAX_COMPONENT, Max(1, MathRound(FloatMul(targetRatio, h))))

(* the loop over h = from..21: best is the pair kept so far with its delta,    *)
(* none before the first (smallestDelta is then +Infinity)                     *)
RECURSIVE BestPair(_, _, _)
BestPair(targetRatio, from, best) ==
    IF from > MAX_COMPONENT THEN best
    ELSE LET w == CandidateWidth(targetRatio, from)
             delta == FloatAbsDiff(FloatDiv(w, from), targetRatio)
             closer == best = None \/ FloatLess(delta, Get(best).smallestDelta)
         IN  IF closer
             THEN BestPair(targetRatio, from + 1,
                           Some([pair |-> <<w, from>>, smallestDelta |-> delta]))
             ELSE BestPair(targetRatio, from + 1, best)

(* the label: "unknown", "w:h", or "~w:h" for the label with the approximation sign *)
getAspectRatio(width, height) ==
    IF width <= 0 \/ height <= 0 THEN [prefix |-> "unknown", w |-> 0, h |-> 0]
    ELSE LET divisor == Gcd(Abs(width), Abs(height))
             reducedWidth == width \div divisor
             reducedHeight == height \div divisor
         IN  IF reducedWidth <= MAX_COMPONENT /\ reducedHeight <= MAX_COMPONENT
             THEN [prefix |-> "", w |-> reducedWidth, h |-> reducedHeight]
             ELSE LET bestPair == Get(BestPair(FloatDiv(width, height), 1, None)).pair
                  IN  [prefix |-> "~", w |-> bestPair[1], h |-> bestPair[2]]

---------------------------------------------------------------------------
(* parseWikimediaResponse *)

(* comparator key of rawPages.sort: (a.index ?? 0) *)
SortKey(page) == OrElse(page.index, 0)

(* p placed after the last element of the sorted sequence s whose key is <= its own *)
RECURSIVE InsertByIndex(_, _)
InsertByIndex(p, s) ==
    IF s = <<>> THEN <<p>>
    ELSE IF SortKey(s[Len(s)]) - SortKey(p) <= 0 THEN Append(s, p)
    ELSE Append(InsertByIndex(p, SubSeq(s, 1, Len(s) - 1)), s[Len(s)])

(* the page list left in the order the source sent it *)
SortPagesSkipped(s) == s

(* rawPages.sort((a, b) => (a.index ?? 0) - (b.index ?? 0)): a stable sort *)
RECURSIVE SortPages(_)
SortPages(s) ==
    IF s = <<>> THEN <<>>
    ELSE InsertByIndex(s[Len(s)], SortPages(SubSeq(s, 1, Len(s) - 1)))

(* rawPages.slice(startIndex, endIndex), 0-based and end-exclusive *)
Slice(s, startIndex, endIndex) ==
    SubSeq(s, Min(startIndex, Len(s)) + 1, Min(endIndex, Len(s)))

(* the page has a first image-info entry with thumburl, width and height *)
PageQualifies(page) ==
    /\ IsSome(page.imageinfo)
    /\ Len(Get(page.imageinfo)) > 0
    /\ LET info == Get(page.imageinfo)[1]
       IN  TruthyUrl(info.thumburl) /\ TruthyNum(info.width) /\ TruthyNum(info.height)

(* extmetadata?.Field?.value of an image-info entry *)
MetaValue(info, field) ==
    IF IsSome(info.extmetadata) THEN Get(info.extmetadata)[field] ELSE None

(* the license object: name from LicenseShortName, else from License; usage    *)
(* terms stripped of tags; url as sent                                         *)
BuildLicense(info) ==
    [ name       |-> IF TruthyText(MetaValue(info, "LicenseShortName"))
                     THEN truncateString(MetaValue(info, "LicenseShortName"), 100)
                     ELSE IF TruthyText(MetaValue(info, "License"))
                     THEN truncateString(MetaValue(info, "License"), 100)
                     ELSE None,
      usageTerms |-> IF TruthyText(MetaValue(info, "UsageTerms"))
                     THEN truncateString(stripHtml(MetaValue(info, "UsageTerms")), 500)
                     ELSE None,
      url        |-> IF TruthyText(MetaValue(info, "LicenseUrl"))
                     THEN MetaValue(info, "LicenseUrl") ELSE None ]

(* the test as it would be if the license object were always attached *)
LicenseAlwaysAttached(license) == TRUE

(* Object.keys(license).length > 0 *)
LicenseHasKeys(license) ==
    IsSome(license.name) \/ IsSome(license.usageTerms) \/ IsSome(license.url)

(* the field as it would be if capped before the tags are removed *)
StrippedFieldCappedFirst(info, field) ==
    IF TruthyText(MetaValue(info, field))
    THEN stripHtml(truncateString(MetaValue(info, field), 500))
    ELSE None

(* a text field that is stripped of tags and capped at 500 *)
StrippedField(info, field) ==
    IF TruthyText(MetaValue(info, field))
    THEN truncateString(stripHtml(MetaValue(info, field)), 500)
    ELSE None

(* the imageMetadata object built for a qualifying page; an optional key that   *)
(* is not set is None                                                           *)
BuildImageMetadata(page) ==
    LET info == Get(page.imageinfo)[1]
        license == BuildLicense(info)
    IN  [ index          |-> OrElse(page.index, 0),
          url            |-> Get(info.thumburl),
          width          |-> Get(info.width),
          height         |-> Get(info.height),
          aspectRatio    |-> getAspectRatio(Get(info.width), Get(info.height)),
          descriptionurl |-> OrElse(info.descriptionshorturl, ""),
          size           |-> info.size,
          caption        |-> IF TruthyText(MetaValue(info, "ObjectName"))
                             THEN truncateString(MetaValue(info, "ObjectName"), 500)
                             ELSE None,
          date           |-> StrippedField(info, "DateTimeOriginal"),
          description    |-> StrippedField(info, "ImageDescription"),
          credit         |-> StrippedField(info, "Credit"),
          artist         |-> StrippedField(info, "Artist"),
          license        |-> IF LicenseHasKeys(license) THEN Some(license) ELSE None ]

(* an image record with the required fields only *)
PlainRecord(index, url, width, height, descriptionurl) ==
    [ index |-> index, url |-> url, width |-> width, height |-> height,
      aspectRatio |-> getAspectRatio(width, height), descriptionurl |-> descriptionurl,
      size |-> None, caption |-> None, date |-> None, description |-> None,
      credit |-> None, artist |-> None, license |-> None ]

(* the loop as it would be if a page lacking a field were emitted with defaults *)
RECURSIVE ParsePagesWithDefaults(_)
ParsePagesWithDefaults(slicedPages) ==
    IF slicedPages = <<>> THEN <<>>
    ELSE LET page == Head(slicedPages)
             rest == ParsePagesWithDefaults(Tail(slicedPages))
         IN  IF PageQualifies(page)
             THEN <<BuildImageMetadata(page)>> \o rest
             ELSE <<PlainRecord(OrElse(page.index, 0), EmptyUrl, 0, 0, "")>> \o rest

(* the for-loop over slicedPages: skip (continue) or push *)
RECURSIVE ParsePages(_)
ParsePages(slicedPages) ==
    IF slicedPages = <<>> THEN <<>>
    ELSE LET rest == ParsePages(Tail(slicedPages))
         IN  IF PageQualifies(Head(slicedPages))
             THEN <<BuildImageMetadata(Head(slicedPages))>> \o rest
             ELSE rest

(* the error test as it would be if it came after the test for pages *)
SignalsErrorUnlessPages(doc) ==
    /\ IsSome(doc.error)
    /\ ~(/\ IsSome(doc.query)
         /\ IsSome(Get(doc.query).pages)
         /\ Len(Get(Get(doc.query).pages)) > 0)

(* if (apiResponse.error) *)
SignalsError(doc) == IsSome(doc.error)

HasPages(doc) ==
    /\ IsSome(doc.query)
    /\ IsSome(Get(doc.query).pages)
    /\ Len(Get(Get(doc.query).pages)) > 0

RawPagesOf(doc) == Get(Get(doc.query).pages)

(* the comparison as it would be without the look-ahead item *)
ComputeHasMoreAtLeast(len, offset, limit) == len >= offset + limit

(* const hasMore = rawPages.length > offset + limit *)
ComputeHasMore(len, offset, limit) == len > offset + limit

(* the value returned or the error thrown *)
parseWikimediaResponse(doc, p) ==
    IF SignalsError(doc)
    THEN [kind |-> "throw", message |-> <<"Wikimedia API error: ", Get(doc.error).info>>]
    ELSE IF ~HasPages(doc)
    THEN [kind |-> "return", images |-> <<>>, hasMore |-> FALSE, nextOffset |-> None]
    ELSE LET rawPages == SortPages(RawPagesOf(doc))
             startIndex == Min(p.offset, Len(rawPages))
             endIndex == Min(p.offset + p.limit, Len(rawPages))
             hasMore == ComputeHasMore(Len(rawPages), p.offset, p.limit)
             slicedPages == Slice(rawPages, startIndex, endIndex)
         IN  [ kind       |-> "return",
               images     |-> ParsePages(slicedPages),
               hasMore    |-> hasMore,
               nextOffset |-> IF hasMore THEN Some(p.offset + p.limit) ELSE None ]

(* the document after the call: rawPages.sort sorts the caller's array in place *)
DocAfterParse(doc) ==
    IF SignalsError(doc) \/ ~HasPages(doc) THEN doc
    ELSE [doc EXCEPT !.query = Some([pages |-> Some(SortPages(RawPagesOf(doc)))])]

---------------------------------------------------------------------------
(* buildWikimediaApiUrl / fetchWikimediaImages *)

(* limit: z.number().max(50) *)
LIMIT_MAX == 50

(* const totalToFetch = Math.min(offset + limit + 1, MAX_RESULTS_LIMIT) *)
TotalToFetch(p) == Min(p.offset + p.limit + 1, MAX_RESULTS_LIMIT)

(* the query parameters of the URL that depend on the input *)
buildWikimediaApiUrl(p) ==
    [ gsrsearch  |-> IF p.license = "no_restrictions"
                     THEN <<"filemime:image/*", "haswbstatement:P275=Q6938433">>
                     ELSE <<"filemime:image/*">>,
      gsrlimit   |-> TotalToFetch(p),
      iiurlwidth |-> THUMBNAIL_SIZE ]

(* extended metadata in which every free-text field is 600 characters long,    *)
(* the description and the usage terms with markup                             *)
VerboseMetadata ==
    LET long == <<Run("a", 600)>>
        marked == <<Run("<", 1), Run("b", 1), Run(">", 1), Run("a", 600)>>
    IN  [ ObjectName |-> Some(long), DateTimeOriginal |-> Some(long),
          ImageDescription |-> Some(marked), Credit |-> Some(long), Artist |-> Some(long),
          LicenseShortName |-> Some(<<Run("c", 120)>>), License |-> None,
          UsageTerms |-> Some(marked), LicenseUrl |-> Some(<<Run("u", 40)>>) ]

(* the item the source ranks r-th, as a raw page *)
SourcePage(r, verbose) ==
    [ index     |-> Some(r),
      imageinfo |-> Some(<<[ thumburl |-> Some(ThumbUrl(THUMBNAIL_SIZE, ToString(r))),
                             size |-> Some(102400),
                             width |-> Some(800), height |-> Some(600),
                             descriptionshorturl |->
                                 Some("https://commons.wikimedia.org/w/index.php?curid=1"),
                             extmetadata |-> IF verbose THEN Some(VerboseMetadata)
                                             ELSE None ]>>) ]

(* the document the source answers a request with: its gsrlimit best-ranked    *)
(* items, or an error object (with or without pages)                           *)
SourceDocument(src, url) ==
    [ error |-> IF src.fault \in {"error", "error_with_pages"}
                THEN Some([code |-> "srsearch-error", info |-> "search backend failure"])
                ELSE None,
      query |-> IF src.items = 0 \/ src.fault = "error" THEN None
                ELSE Some([pages |-> Some([r \in 1..Min(src.items, url.gsrlimit)
                                             |-> SourcePage(r, src.verbose)])]) ]

(* fetchWikimediaImages up to the request: the URL is built and fetch(url) called *)
FetchIssue ==
    /\ pc = "search"
    /\ request' = Some(buildWikimediaApiUrl(params))
    /\ pc' = "fetching"
    /\ UNCHANGED <<params, source, wire, apiResponse, parsed>>
    /\ UNCHANGED <<compositeVars, toolVars, call>>

(* what fetch(url) gives: a rejection when the source cannot be reached, else   *)
(* the response with its status line                                           *)
SourceResponse(src) ==
    IF src.fault = "network" THEN None
    ELSE IF src.fault = "http"
    THEN Some([ok |-> FALSE, status |-> 500, statusText |-> "Internal Server Error"])
    ELSE Some([ok |-> TRUE, status |-> 200, statusText |-> "OK"])

(* an error thrown with the given message, as the outcome of the search *)
Thrown(message) == [kind |-> "throw", message |-> message]

(* `await fetch(url)` resumes: a rejection of fetch and a bad status throw,    *)
(* otherwise response.json() is called and the call is suspended again         *)
FetchResponse ==
    /\ pc = "fetching"
    /\ LET httpResponse == SourceResponse(Get(source))
       IN  IF ~IsSome(httpResponse)
           THEN /\ parsed' = Some(Thrown(<<"fetch failed">>))
                /\ pc' = "parsed"
           ELSE IF ~Get(httpResponse).ok
           THEN /\ parsed' = Some(Thrown(<<"Wikimedia API request failed: ",
                                           ToString(Get(httpResponse).status), " ",
                                           Get(httpResponse).statusText>>))
                /\ pc' = "parsed"
           ELSE /\ parsed' = parsed
                /\ pc' = "json"
    /\ UNCHANGED <<params, source, request, wire, apiResponse>>
    /\ UNCHANGED <<compositeVars, toolVars, call>>

(* `await response.json()` resumes: a body that is not JSON throws, otherwise  *)
(* the document read from the body is returned                                 *)
FetchJson ==
    /\ pc = "json"
    /\ IF Get(source).fault = "bad_json"
       THEN /\ parsed' = Some(Thrown(<<"Unexpected token '<', \"<!DOCTYPE \"... is not valid JSON">>))
            /\ pc' = "parsed"
            /\ UNCHANGED <<wire, apiResponse>>
       ELSE /\ wire' = Some(SourceDocument(Get(source), Get(request)))
            /\ apiResponse' = wire'
            /\ parsed' = parsed
            /\ pc' = "parse"
    /\ UNCHANGED <<params, source, request>>
    /\ UNCHANGED <<compositeVars, toolVars, call>>

---------------------------------------------------------------------------
(* generateThumbnailComposite *)

COLUMNS == 3
SPACING == 10
LABEL_OFFSET == 5

(* the tool handler has not run *)
NoToolCall ==
    /\ content = <<>>
    /\ response = None

(* no generateThumbnailComposite call has been made *)
NoComposite ==
    /\ images = None
    /\ network = <<>>
    /\ fetches = <<>>
    /\ tasks = <<>>
    /\ encoder = "ok"
    /\ canvas = None
    /\ composite = None

(* Math.ceil of the quotient a / b of two positive integers *)
CeilDiv(a, b) == (a + b - 1) \div b

(* -Math.round(-x) for x >= 0: the integer nearest to x, a half rounded down *)
MathRoundNegated(x) ==
    IF x.n = <<>> THEN 0
    ELSE IF x.e >= 0 THEN IntOf(BigShl(x.n, x.e))
    ELSE IntOf(BigShr(BigSub(BigAdd(x.n, BigShl(<<1>>, -x.e - 1)), <<1>>), -x.e))

(* Math.round(width * (THUMBNAIL_SIZE / height)) in doubles when the height   *)
(* exceeds the width; the height is not 0                                     *)
calculateThumbnailWidth(width, height) ==
    IF height > width
    THEN LET scaleFactor == FloatDiv(THUMBNAIL_SIZE, Abs(height))
             product == FloatMul(scaleFactor, Abs(width))
         IN  IF (width < 0) = (height < 0) THEN MathRound(product)
             ELSE -MathRoundNegated(product)
    ELSE THUMBNAIL_SIZE

(* url.replace(/\/(\d+)px-/, `/${newWidth}px-`): a URL without the segment is unchanged *)
replaceUrlWidth(url, newWidth) ==
    IF IsSome(url.px) THEN [url EXCEPT !.px = Some(newWidth)] ELSE url

(* the argument passed on without the cap *)
LimitImagesUncapped(list) == list

(* images.slice(0, MAX_IMAGES_IN_COMPOSITE) *)
LimitImages(list) == Slice(list, 0, MAX_IMAGES_IN_COMPOSITE)

(* the request the map callback issues for the record at 0-based position index *)
ThumbnailFetch(img, index) ==
    [ position |-> index,
      url      |-> replaceUrlWidth(img.url, calculateThumbnailWidth(img.width, img.height)) ]

(* a promise of the map: pending with its callback suspended at one of its      *)
(* awaits, or settled                                                          *)
PendingTask == [state |-> "pending", at |-> "fetch", value |-> None]
Suspended(at) == [state |-> "pending", at |-> at, value |-> None]
Fulfilled(value) == [state |-> "fulfilled", at |-> "settled", value |-> value]
Rejected(message) == [state |-> "rejected", at |-> "settled", value |-> Some(message)]

(* the callback without its try/catch: a throw in fetch rejects the task *)
AfterFetchUncaught(outcome) ==
    IF outcome = "fetch_throws" THEN Rejected(<<"fetch failed">>)
    ELSE IF outcome = "bad_status" THEN Fulfilled(None)
    ELSE Suspended("arrayBuffer")

(* the callback as it would be if it never finished after a failure *)
AfterFetchHangsOnFailure(outcome) ==
    IF outcome \in {"fetch_throws", "bad_status"} THEN Suspended("fetch")
    ELSE Suspended("arrayBuffer")

(* the callback resumed at `await fetch(fetchUrl)`: null after an exception     *)
(* (catch: return null) or a bad status (return null), otherwise                *)
(* response.arrayBuffer() is called                                             *)
AfterFetch(outcome) ==
    IF outcome = "fetch_throws" THEN Fulfilled(None)
    ELSE IF outcome = "bad_status" THEN Fulfilled(None)
    ELSE Suspended("arrayBuffer")

(* the callback resumed at `await response.arrayBuffer()`: null after an        *)
(* exception, otherwise sharp(buffer).resize(...).toBuffer() is called          *)
AfterArrayBuffer(outcome) ==
    IF outcome = "body_throws" THEN Fulfilled(None)
    ELSE Suspended("resize")

(* the callback resumed at `await sharp(buffer)...toBuffer()`: null after an    *)
(* exception, otherwise { buffer: resizedBuffer, index }                        *)
AfterResize(fetch, outcome) ==
    IF outcome = "decode_throws" THEN Fulfilled(None)
    ELSE Fulfilled(Some([buffer |-> fetch.url, index |-> fetch.position]))

(* the call up to its first suspension: the cap, the empty case, and the map    *)
(* callbacks, each of which runs up to its fetch                                *)
CompositeStart ==
    /\ pc = "composite"
    /\ LET limitedImages == LimitImages(Get(images))
       IN  IF Len(limitedImages) = 0
           THEN /\ composite' = Some([kind |-> "return", value |-> <<>>])
                /\ pc' = "composite_done"
                /\ UNCHANGED <<fetches, tasks>>
           ELSE /\ fetches' = [k \in 1..Len(limitedImages)
                                 |-> ThumbnailFetch(limitedImages[k], k - 1)]
                /\ tasks' = [k \in 1..Len(limitedImages) |-> PendingTask]
                /\ pc' = "thumbnails"
                /\ UNCHANGED composite
    /\ UNCHANGED <<images, network, encoder, canvas>>
    /\ UNCHANGED <<searchVars, toolVars, call>>

(* the fetch of one thumbnail settles and its callback runs to its next await   *)
(* or to its end                                                                *)
ThumbnailResponse ==
    /\ pc = "thumbnails"
    /\ \E k \in 1..Len(tasks) :
          /\ tasks[k].state = "pending" /\ tasks[k].at = "fetch"
          /\ tasks' = [tasks EXCEPT ![k] = AfterFetch(network[fetches[k].position + 1])]
    /\ UNCHANGED <<pc, images, network, fetches, encoder, canvas, composite>>
    /\ UNCHANGED <<searchVars, toolVars, call>>

(* the body of one response has been read (or not) and its callback runs on *)
ThumbnailBody ==
    /\ pc = "thumbnails"
    /\ \E k \in 1..Len(tasks) :
          /\ tasks[k].state = "pending" /\ tasks[k].at = "arrayBuffer"
          /\ tasks' = [tasks EXCEPT ![k] = AfterArrayBuffer(network[fetches[k].position + 1])]
    /\ UNCHANGED <<pc, images, network, fetches, encoder, canvas, composite>>
    /\ UNCHANGED <<searchVars, toolVars, call>>

(* the resize of one thumbnail settles and its callback finishes *)
ThumbnailResize ==
    /\ pc = "thumbnails"
    /\ \E k \in 1..Len(tasks) :
          /\ tasks[k].state = "pending" /\ tasks[k].at = "resize"
          /\ tasks' = [tasks EXCEPT
                         ![k] = AfterResize(fetches[k], network[fetches[k].position + 1])]
    /\ UNCHANGED <<pc, images, network, fetches, encoder, canvas, composite>>
    /\ UNCHANGED <<searchVars, toolVars, call>>

(* Promise.all: rejected once a task is rejected, fulfilled once all are fulfilled *)
PromiseAllRejected(ts) == \E k \in 1..Len(ts) : ts[k].state = "rejected"
PromiseAllFulfilled(ts) == \A k \in 1..Len(ts) : ts[k].state = "fulfilled"

(* the join as it would be with Promise.race: ready once any task has settled *)
JoinReadyAtFirstSettled(ts) == \E k \in 1..Len(ts) : ts[k].state # "pending"

(* `await Promise.all(...)` can resume *)
JoinReady(ts) == PromiseAllRejected(ts) \/ PromiseAllFulfilled(ts)

(* imageBuffers.filter(img => img !== null) *)
RECURSIVE ValidImages(_)
ValidImages(ts) ==
    IF ts = <<>> THEN <<>>
    ELSE IF IsSome(Head(ts).value) THEN <<Get(Head(ts).value)>> \o ValidImages(Tail(ts))
    ELSE ValidImages(Tail(ts))

(* the cell index as it would be if taken from the position among the successes *)
GridIndexByArrayPosition(valid, k) == k - 1

(* the cell index of the k-th entry of validImages: its own index tag *)
GridIndex(valid, k) == valid[k].index

CellTop(index) ==
    LET row == index \div COLUMNS IN row * THUMBNAIL_SIZE + (row + 1) * SPACING
CellLeft(index) ==
    LET col == index % COLUMNS IN col * THUMBNAIL_SIZE + (col + 1) * SPACING

(* compositeInputs: one layer per valid image, at its cell origin *)
CompositeInputs(valid) ==
    [ k \in 1..Len(valid) |->
        [ input |-> [image |-> valid[k].buffer],
          top   |-> CellTop(GridIndex(valid, k)),
          left  |-> CellLeft(GridIndex(valid, k)) ] ]

(* textOverlays: one SVG label per valid image, 5px inside its cell *)
TextOverlays(valid) ==
    [ k \in 1..Len(valid) |->
        [ input |-> [label |-> GridIndex(valid, k) + 1],
          top   |-> CellTop(GridIndex(valid, k)) + LABEL_OFFSET,
          left  |-> CellLeft(GridIndex(valid, k)) + LABEL_OFFSET ] ]

(* the canvas and its layers, as handed to sharp({create}).composite(...) *)
Canvas(count, valid) ==
    LET rows == CeilDiv(count, COLUMNS)
    IN  [ width  |-> COLUMNS * THUMBNAIL_SIZE + (COLUMNS + 1) * SPACING,
          height |-> rows * THUMBNAIL_SIZE + (rows + 1) * SPACING,
          layers |-> CompositeInputs(valid) \o TextOverlays(valid) ]

(* compositeImage.toString("base64"): the text of the JPEG of the canvas,       *)
(* non-empty and determined by the canvas                                       *)
EncodeComposite(c) == <<c>>

(* the error with which Promise.all rejects: that of a rejected task *)
RejectionOf(ts) == Get(ts[CHOOSE k \in 1..Len(ts) : ts[k].state = "rejected"].value)

(* `await Promise.all(...)` resumes: the join, the filter, the layout, and the  *)
(* call of the encoder, at which the call is suspended again                    *)
CompositeJoin ==
    /\ pc = "thumbnails"
    /\ JoinReady(tasks)
    /\ IF PromiseAllRejected(tasks)
       THEN /\ composite' = Some([kind |-> "throw", value |-> <<>>,
                                  message |-> RejectionOf(tasks)])
            /\ pc' = "composite_done"
            /\ UNCHANGED canvas
       ELSE LET validImages == ValidImages(tasks)
            IN  IF Len(validImages) = 0
                THEN /\ composite' = Some([kind |-> "return", value |-> <<>>])
                     /\ pc' = "composite_done"
                     /\ UNCHANGED canvas
                ELSE /\ canvas' = Some(Canvas(Len(tasks), validImages))
                     /\ pc' = "encoding"
                     /\ UNCHANGED composite
    /\ UNCHANGED <<images, network, fetches, tasks, encoder>>
    /\ UNCHANGED <<searchVars, toolVars, call>>

(* `await sharp({create}).composite(...).jpeg(...).toBuffer()` resumes: an      *)
(* exception of the encoder leaves the call (no try around it), otherwise the   *)
(* base64 text is returned                                                      *)
CompositeEncode ==
    /\ pc = "encoding"
    /\ composite' = IF encoder = "throws"
                    THEN Some([kind |-> "throw", value |-> <<>>,
                               message |-> <<"encode failed">>])
                    ELSE Some([kind |-> "return", value |-> EncodeComposite(Get(canvas))])
    /\ pc' = "composite_done"
    /\ UNCHANGED <<images, network, fetches, tasks, encoder, canvas>>
    /\ UNCHANGED <<searchVars, toolVars, call>>

---------------------------------------------------------------------------
(* formatSearchResults: the text is kept as its fixed pieces, the records it   *)
(* lists, and its length in characters                                         *)

CHARACTER_LIMIT == 25000

(* the directory part of a thumbnail URL, before "<width>px-<file>" *)
URL_DIR == "https://upload.wikimedia.org/wikipedia/commons/thumb/"

Digits(n) == Len(ToString(n))

UrlLength(url) ==
    IF IsSome(url.px) THEN Len(URL_DIR) + Digits(Get(url.px)) + Len("px-") + Len(url.file)
    ELSE Len(url.file)

(* yaml.dump(..., { indent: 2, lineWidth: 120 }) *)
LINE_WIDTH == 120

(* a string value in single quotes *)
Quoted(length) == Len("'") + length + Len("'")

(* the label as the dump writes it: "w:h" reads as a number in base 60 and is  *)
(* written in single quotes, the other labels are written plain                *)
AspectRatioLength(label) ==
    IF label.prefix = "unknown" THEN Len("unknown")
    ELSE IF label.prefix = "" THEN Quoted(Digits(label.w) + Len(":") + Digits(label.h))
    ELSE Len(label.prefix) + Digits(label.w) + Len(":") + Digits(label.h)

(* a string that is a URL or empty: the empty string is written '' *)
StringLength(str) == IF str = "" THEN Quoted(0) ELSE Len(str)

(* the characters with which a plain scalar cannot begin (and the grave        *)
(* accent, which no text here has)                                             *)
IndicatorChars ==
    {"-", "?", ":", ",", "[", "]", "{", "}", "#", "&", "*", "!", "|", "=", ">", "'",
     "\"", "%", "@", " "}

(* the text cannot be written plain: its first character is an indicator, its  *)
(* last a colon or a space, or it reads as a value of another type (of the     *)
(* texts here only "<<", the merge key); inside, the characters of the texts   *)
(* here are all allowed in a plain scalar                                      *)
NeedsQuotes(t) ==
    \/ Head(t).ch \in IndicatorChars
    \/ t[Len(t)].ch \in {":", " "}
    \/ t = <<Run("<", 2)>>

(* one line "key: value" of the YAML dump at the given indentation *)
YamlLine(key, valueLength, indent) == indent + Len(key) + Len(": ") + valueLength + 1

(* a text value: on the line of its key, plain or in single quotes, or, when   *)
(* it is longer than the line width left at its depth, as a folded block (">-" *)
(* after the key, the text on the next line one level deeper); the texts have  *)
(* no spaces to fold at                                                        *)
YamlTextLine(key, text, indent) ==
    IF ~IsSome(text) THEN 0
    ELSE IF TextLen(Get(text)) > Max(40, LINE_WIDTH - (indent + 2))
    THEN YamlLine(key, Len(">-"), indent) + (indent + 2) + TextLen(Get(text)) + 1
    ELSE IF NeedsQuotes(Get(text)) THEN YamlLine(key, Quoted(TextLen(Get(text))), indent)
    ELSE YamlLine(key, TextLen(Get(text)), indent)

(* length of the entry yaml.dump writes for one record: "- key: value" for the *)
(* first key, "  key: value" for the others, the license keys one level deeper *)
YamlLength(rec) ==
    YamlLine("index", Digits(rec.index), 2)
    + YamlLine("url", UrlLength(rec.url), 2)
    + YamlLine("width", Digits(rec.width), 2)
    + YamlLine("height", Digits(rec.height), 2)
    + YamlLine("aspectRatio", AspectRatioLength(rec.aspectRatio), 2)
    + YamlLine("descriptionurl", StringLength(rec.descriptionurl), 2)
    + (IF IsSome(rec.size) THEN YamlLine("size", Digits(Get(rec.size)), 2) ELSE 0)
    + YamlTextLine("caption", rec.caption, 2)
    + YamlTextLine("date", rec.date, 2)
    + YamlTextLine("description", rec.description, 2)
    + YamlTextLine("credit", rec.credit, 2)
    + YamlTextLine("artist", rec.artist, 2)
    + (IF IsSome(rec.license)
       THEN YamlLine("license", -1, 2)
            + YamlTextLine("name", Get(rec.license).name, 4)
            + YamlTextLine("usageTerms", Get(rec.license).usageTerms, 4)
            + YamlTextLine("url", Get(rec.license).url, 4)
       ELSE 0)

RECURSIVE YamlDumpLength(_)
YamlDumpLength(list) ==
    IF list = <<>> THEN 0 ELSE YamlLength(Head(list)) + YamlDumpLength(Tail(list))

RECURSIVE PiecesLength(_)
PiecesLength(pieces) ==
    IF pieces = <<>> THEN 0 ELSE Len(Head(pieces)) + PiecesLength(Tail(pieces))

(* a text: its fixed pieces, the records listed in it, its length *)
Text(pieces, listing, extra) ==
    [ message |-> pieces, listing |-> listing,
      length |-> PiecesLength(pieces) + YamlDumpLength(listing) + extra ]

formatSearchResults(result) ==
    IF Len(result.images) = 0
    THEN Text(<<"No images found matching your query. Try different search query or change the license filter to 'all'.">>,
              <<>>, 0)
    ELSE Text(
           << "Each result contains: index, url (url to fetch the image, replace ",
              ToString(THUMBNAIL_SIZE),
              "px with desired width up to the original image width), size (bytes), width, height, descriptionurl (webpage link), and optional: caption, date, description, credit, artist, license (name, usageTerms, url).",
              "Showing ", ToString(Len(result.images)),
              IF Len(result.images) # 1 THEN " results:" ELSE " result:" >>
           \o (IF result.hasMore
               THEN << "If nothing found what you're looking for, try a different query or use offset=",
                       ToString(Get(result.nextOffset)), " to see more results." >>
               ELSE << "End of results." >>)
           \o << "To download images: use the image URL and replace '",
                 ToString(THUMBNAIL_SIZE), "px' with your desired width (up to original width).",
                 "Compare the images in the search results to choose the most suitable for your task. You may fetch the image(s) using the fetch or download tool (if available), report your findings or use otherwise as needed." >>,
           result.images,
           \* the "\n" that opens five of the six lines, the one that closes
           \* the second, and the five that join the lines
           5 + 1 + 5)

---------------------------------------------------------------------------
(* The wikimedia_search_images tool handler *)

(* searchWikimediaImages: the result of the parse, or its error wrapped *)
searchWikimediaImages(outcome) ==
    IF outcome.kind = "throw"
    THEN [kind |-> "throw",
          message |-> <<"Failed to search Wikimedia Commons: ">> \o outcome.message]
    ELSE outcome

TextPart(text) == [type |-> "text", text |-> text]

ImagePart(data) ==
    [type |-> "image", data |-> data, mimeType |-> "image/jpeg", mediaType |-> "image/jpeg"]

(* the catch block of the handler *)
ErrorResponse(errorMessage) ==
    [ content |-> <<TextPart(Text(<<"Error searching Wikimedia Commons: ">> \o errorMessage,
                                  <<>>, 0))>>,
      isError |-> TRUE ]

NoImagesResponse ==
    [ content |-> <<TextPart(Text(<<"No images found matching your query. Try different search terms or change the license filter to 'all'.">>,
                                  <<>>, 0))>>,
      isError |-> FALSE ]

(* the response when the text is over the limit: the first half of the records *)
(* formatted again, and the warning (its sign counts two characters)           *)
TruncatedResponse(searchResult) ==
    LET truncatedResult ==
            [searchResult EXCEPT
               !.images = Slice(searchResult.images, 0, Len(searchResult.images) \div 2)]
        truncatedText == formatSearchResults(truncatedResult)
        warningMessage ==
            << "!! **Response Truncated**: Original response exceeded ",
               ToString(CHARACTER_LIMIT), " characters. Showing first ",
               ToString(Len(truncatedResult.images)),
               " results. Use smaller limit to get non-truncated results." >>
    IN  [ content |-> <<TextPart([ message |-> truncatedText.message \o warningMessage,
                                   listing |-> truncatedText.listing,
                                   length  |-> truncatedText.length + 2
                                               + PiecesLength(warningMessage) ])>>,
          isError |-> FALSE ]

(* the handler, resumed with the outcome of searchWikimediaImages, up to its   *)
(* return or to the call of generateThumbnailComposite                         *)
HandlerAfterSearch ==
    /\ pc = "parsed"
    /\ LET searchResult == searchWikimediaImages(Get(parsed))
       IN  IF searchResult.kind = "throw"
           THEN /\ response' = Some(ErrorResponse(searchResult.message))
                /\ pc' = "responded"
                /\ UNCHANGED <<content, images>>
           ELSE IF Len(searchResult.images) = 0
           THEN /\ response' = Some(NoImagesResponse)
                /\ pc' = "responded"
                /\ UNCHANGED <<content, images>>
           ELSE IF formatSearchResults(searchResult).length > CHARACTER_LIMIT
           THEN /\ response' = Some(TruncatedResponse(searchResult))
                /\ pc' = "responded"
                /\ UNCHANGED <<content, images>>
           ELSE /\ content' = <<TextPart(formatSearchResults(searchResult))>>
                /\ IF params.include_thumbnails /\ Len(searchResult.images) > 0
                   THEN /\ images' = Some(searchResult.images)
                        /\ pc' = "composite"
                        /\ UNCHANGED response
                   ELSE /\ response' = Some([content |-> content', isError |-> FALSE])
                        /\ pc' = "responded"
                        /\ UNCHANGED images
    /\ UNCHANGED <<network, fetches, tasks, encoder, canvas, composite>>
    /\ UNCHANGED <<searchVars, call>>

(* the condition under which the image part is added, as it would be without   *)
(* the test of the composite's length                                          *)
AddsImageAlways(thumbnailComposite) == TRUE

(* if (thumbnailComposite.length > 0) *)
AddsImage(thumbnailComposite) == Len(thumbnailComposite) > 0

(* the handler, resumed with the outcome of generateThumbnailComposite *)
HandlerAfterComposite ==
    /\ pc = "composite_done"
    /\ response' =
         IF Get(composite).kind = "throw"
         THEN Some(ErrorResponse(Get(composite).message))
         ELSE IF AddsImage(Get(composite).value)
         THEN Some([content |-> Append(content, ImagePart(Get(composite).value)),
                    isError |-> FALSE])
         ELSE Some([content |-> content, isError |-> FALSE])
    /\ pc' = "responded"
    /\ UNCHANGED content
    /\ UNCHANGED <<searchVars, compositeVars, call>>

---------------------------------------------------------------------------
(* Inputs of the normalizer specification *)

MaxPages == 3
MaxOffset == 3
MaxLimit == 3

GoodInfo(name) ==
    [ thumburl |-> Some(ThumbUrl(THUMBNAIL_SIZE, name)), size |-> None, width |-> Some(800),
      height |-> Some(600), descriptionshorturl |-> Some("https://commons.wikimedia.org/w/index.php?curid=1"),
      extmetadata |-> None ]

(* the pages the source may put at input position k: an ordinal (absent, 1 or   *)
(* 2) and an image-info list that is complete, absent, empty or partial. The   *)
(* file name of a thumbnail names the input position, so that a record can be  *)
(* traced to the page it came from                                             *)
PageKinds(k) ==
    LET name == <<"f1", "f2", "f3", "f4", "f5">>[k]
        good == GoodInfo(name)
    IN  { [index |-> None,    imageinfo |-> Some(<<good>>)],
          [index |-> Some(1), imageinfo |-> Some(<<good>>)],
          [index |-> Some(2), imageinfo |-> Some(<<good>>)],
          [index |-> Some(1), imageinfo |-> None],
          [index |-> None,    imageinfo |-> Some(<<>>)],
          [index |-> Some(2), imageinfo |-> Some(<<[good EXCEPT !.thumburl = None]>>)],
          [index |-> Some(1), imageinfo |-> Some(<<[good EXCEPT !.width = Some(0)]>>)],
          [index |-> Some(2), imageinfo |-> Some(<<[good EXCEPT !.height = None,
                                                               !.descriptionshorturl = None]>>)],
          [index |-> None,    imageinfo |-> Some(<<[good EXCEPT !.thumburl = Some(EmptyUrl)],
                                                   good>>)] }

RECURSIVE PagesOfLen(_)
PagesOfLen(n) ==
    IF n = 0 THEN {<<>>}
    ELSE {Append(ps, p) : ps \in PagesOfLen(n - 1), p \in PageKinds(n)}

Documents ==
    LET pageLists == UNION {PagesOfLen(n) : n \in 0..MaxPages}
        err == Some([code |-> "badvalue", info |-> "boom"])
    IN  {[error |-> None, query |-> None], [error |-> None, query |-> Some([pages |-> None])]}
        \cup {[error |-> None, query |-> Some([pages |-> Some(ps)])] : ps \in pageLists}
        \cup {[error |-> err, query |-> None]}
        \cup {[error |-> err, query |-> Some([pages |-> Some(ps)])] : ps \in PagesOfLen(1)}

ParamsOf(offset, limit, incl) ==
    [offset |-> offset, limit |-> limit, license |-> "all", include_thumbnails |-> incl]

InitParse ==
    /\ pc = "parse"
    /\ source = None
    /\ request = None
    /\ \E offset \in 0..MaxOffset, limit \in 1..MaxLimit : params = ParamsOf(offset, limit, FALSE)
    /\ \E doc \in Documents : wire = Some(doc) /\ apiResponse = Some(doc)
    /\ parsed = None
    /\ NoComposite
    /\ NoToolCall
    /\ call = None

(* one call parseWikimediaResponse(apiResponse, params) *)
Parse ==
    /\ pc = "parse"
    /\ parsed' = Some(parseWikimediaResponse(Get(apiResponse), params))
    /\ apiResponse' = Some(DocAfterParse(Get(apiResponse)))
    /\ pc' = "parsed"
    /\ UNCHANGED <<params, source, request, wire>>
    /\ UNCHANGED <<compositeVars, toolVars, call>>

NextParse == Parse

SpecParse == InitParse /\ [][NextParse]_vars

---------------------------------------------------------------------------
(* Properties of the normalizer, checked under SpecParse *)

Returned == pc = "parsed" /\ Get(parsed).kind = "return"
Result == Get(parsed)

(* the pages of the document as the source sent it; none when the list is absent *)
WirePages ==
    LET doc == Get(wire)
    IN  IF IsSome(doc.query) /\ IsSome(Get(doc.query).pages)
        THEN Get(Get(doc.query).pages) ELSE <<>>

TotalCount == Len(WirePages)

(* C1: for a document without an error field, with totalCount the number of   *)
(* pages of the raw document (0 when the list is absent or empty), the call   *)
(* returns hasMore = false and no nextOffset when offset+limit >= totalCount, *)
(* and hasMore = true with nextOffset = offset+limit otherwise; nextOffset is *)
(* present if and only if hasMore is true.                                    *)
C1_HasMoreNextOffset ==
    Returned =>
        /\ (params.offset + params.limit >= TotalCount
              => Result.hasMore = FALSE /\ Result.nextOffset = None)
        /\ (params.offset + params.limit < TotalCount
              => Result.hasMore = TRUE
                 /\ Result.nextOffset = Some(params.offset + params.limit))
        /\ (IsSome(Result.nextOffset) <=> Result.hasMore)

(* a second page is asked for (offset >= 1) and a further one exists *)
C1_Witness ==
    /\ Returned
    /\ params.offset >= 1
    /\ TotalCount = params.offset + params.limit + 1
    /\ Result.hasMore
    /\ Result.nextOffset = Some(params.offset + params.limit)

(* C3: whatever the order in which the source returned the pages, and with a  *)
(* missing ordinal counted as 0, the returned images are in ascending order   *)
(* of their index field.                                                      *)
C3_ImagesSortedByIndex ==
    Returned =>
        \A i \in 1..Len(Result.images) : \A j \in 1..Len(Result.images) :
            i < j => Result.images[i].index <= Result.images[j].index

(* the source sent the page with the larger ordinal first; both are returned, *)
(* the first of them without an ordinal                                       *)
C3_Witness ==
    /\ Returned
    /\ Len(WirePages) >= 2
    /\ WirePages[1].index = Some(2)
    /\ WirePages[2].index = None
    /\ Len(Result.images) = 2
    /\ Result.images[1].url.file = "f2" /\ Result.images[1].index = 0
    /\ Result.images[2].url.file = "f1" /\ Result.images[2].index = 2

(* 0-based position of the page sent at position k in the list sorted by      *)
(* ordinal (ties keep the order sent)                                         *)
WireKey(k) == IF WirePages[k].index = None THEN 0 ELSE WirePages[k].index[1]
SortedPosition(k) ==
    Cardinality({q \in 1..Len(WirePages) : WireKey(q) < WireKey(k)})
    + Cardinality({q \in 1..(k - 1) : WireKey(q) = WireKey(k)})

InWindow(k) ==
    /\ params.offset <= SortedPosition(k)
    /\ SortedPosition(k) < params.offset + params.limit

(* the page's first image-info entry exists and has the three required fields *)
HasRequiredFields(page) ==
    /\ page.imageinfo # None
    /\ page.imageinfo[1] # <<>>
    /\ page.imageinfo[1][1].thumburl # None
    /\ page.imageinfo[1][1].width # None
    /\ page.imageinfo[1][1].height # None

CameFrom(rec, page) ==
    /\ rec.index = (IF page.index = None THEN 0 ELSE page.index[1])
    /\ rec.url = page.imageinfo[1][1].thumburl[1]
    /\ rec.width = page.imageinfo[1][1].width[1]
    /\ rec.height = page.imageinfo[1][1].height[1]

(* C4: a record is emitted only for a page that lies in the window            *)
(* [offset, offset+limit) of the sorted list, has an image-info entry, and    *)
(* whose first entry has thumbnail URL, width and height; its index, url,     *)
(* width and height are those of that page; no page yields two records and    *)
(* no record stands for a page that fails the test.                           *)
C4_OnlyQualifyingPagesEmitted ==
    Returned =>
        /\ \A i \in 1..Len(Result.images) :
              \E k \in 1..Len(WirePages) :
                  /\ InWindow(k)
                  /\ HasRequiredFields(WirePages[k])
                  /\ CameFrom(Result.images[i], WirePages[k])
        /\ \A i \in 1..Len(Result.images) : \A j \in 1..Len(Result.images) :
              i # j => Result.images[i].url # Result.images[j].url
        /\ Len(Result.images)
             <= Cardinality({k \in 1..Len(WirePages) :
                               InWindow(k) /\ HasRequiredFields(WirePages[k])})

(* three pages in the window: the middle one lacks a required field and is    *)
(* dropped, its neighbours are emitted with their own ordinals                *)
C4_Witness ==
    /\ Returned
    /\ Len(WirePages) = 3
    /\ params.offset = 0 /\ params.limit = 3
    /\ ~HasRequiredFields(WirePages[3])
    /\ WireKey(3) = 1
    /\ Len(Result.images) = 2
    /\ Result.images[1].url.file = "f1" /\ Result.images[1].index = 0
    /\ Result.images[2].url.file = "f2" /\ Result.images[2].index = 2

(* C11: parseWikimediaResponse has no side effects: after the call, whether it *)
(* returned or threw, the document passed in is what it was before the call,  *)
(* the order of its page list included, and a second call on the same         *)
(* document with the same offset and limit gives the same result.             *)
C11_NoSideEffects ==
    pc = "parsed" =>
        /\ apiResponse = wire
        /\ parseWikimediaResponse(Get(apiResponse), params) = Get(parsed)

(* C11, second part alone: a second call on the document as the first call    *)
(* left it gives the same result and leaves the document as it found it.      *)
C11_SecondCallSameResult ==
    pc = "parsed" =>
        /\ parseWikimediaResponse(Get(apiResponse), params) = Get(parsed)
        /\ DocAfterParse(Get(apiResponse)) = Get(apiResponse)

(* the source sent the page of ordinal 2 before the page of ordinal 1, and the *)
(* caller's document now lists them the other way round                       *)
C11_OrderChanged ==
    /\ pc = "parsed"
    /\ Len(WirePages) = 2
    /\ WirePages[1].index = Some(2) /\ WirePages[2].index = Some(1)
    /\ RawPagesOf(Get(apiResponse)) = <<WirePages[2], WirePages[1]>>

---------------------------------------------------------------------------
(* A search run end to end: fetchWikimediaImages, then parseWikimediaResponse *)

MaxSourceItems == 52
MaxSearchOffset == 2

InitSearch ==
    /\ pc = "search"
    /\ \E offset \in 0..MaxSearchOffset, limit \in 1..LIMIT_MAX, lic \in {"all", "no_restrictions"} :
          params = [ParamsOf(offset, limit, FALSE) EXCEPT !.license = lic]
    /\ \E n \in 0..MaxSourceItems, fault \in {"none", "network", "http", "bad_json"} :
          source = Some([items |-> n, verbose |-> FALSE, fault |-> fault])
    /\ request = None
    /\ wire = None
    /\ apiResponse = None
    /\ parsed = None
    /\ NoComposite
    /\ NoToolCall
    /\ call = None

NextSearch == FetchIssue \/ FetchResponse \/ FetchJson \/ Parse

SpecSearch == InitSearch /\ [][NextSearch]_vars

(* C2: for a search run end to end against a source that holds N matching     *)
(* items, the returned hasMore is true if and only if N > offset+limit.        *)
C2_HasMoreIffMoreExist ==
    (Returned /\ IsSome(source)) =>
        (Result.hasMore <=> Get(source).items > params.offset + params.limit)

(* C2, second sentence: the request asks for offset+limit+1 items, capped at 50 *)
C2_FetchCount ==
    IsSome(request) =>
        Get(request).gsrlimit
          = (IF params.offset + params.limit + 1 <= 50
             THEN params.offset + params.limit + 1 ELSE 50)

---------------------------------------------------------------------------
(* One generateThumbnailComposite call on a list of records *)

MaxFullList == 3
MaxSmallList == 4
MaxBeyondCap == 1

(* the record at 0-based position i: portrait at odd positions, landscape at even *)
CompositeRecord(i) ==
    PlainRecord(i + 1, ThumbUrl(THUMBNAIL_SIZE, ToString(i)),
                IF i % 2 = 1 THEN 600 ELSE 800, IF i % 2 = 1 THEN 800 ELSE 600,
                "https://commons.wikimedia.org/wiki/File:Cat03.jpg")

(* what the thumbnail of a record does: it is fetched, read and resized, or    *)
(* the fetch throws, answers a bad status, the body cannot be read, or the     *)
(* bytes cannot be decoded                                                     *)
Outcomes == {"ok", "bad_status", "fetch_throws", "body_throws", "decode_throws"}

(* what the encoding of the canvas does *)
EncoderOutcomes == {"ok", "throws"}

(* the shortest lists with every outcome of every thumbnail; short lists with  *)
(* thumbnails that are good, answer a bad status or cannot be decoded; lists   *)
(* at and beyond the cap in which the thumbnail of the last cell is good and   *)
(* the others answer a bad status                                              *)
CompositeInputsOfLen(n) ==
    IF n <= MaxFullList THEN [1..n -> Outcomes]
    ELSE IF n <= MaxSmallList THEN [1..n -> {"ok", "bad_status", "decode_throws"}]
    ELSE {[k \in 1..n |-> IF k >= MAX_IMAGES_IN_COMPOSITE THEN "ok" ELSE "bad_status"]}

InitComposite ==
    /\ pc = "composite"
    /\ params = ParamsOf(0, 1, TRUE)
    /\ source = None
    /\ request = None
    /\ wire = None
    /\ apiResponse = None
    /\ parsed = None
    /\ \E n \in (0..MaxSmallList)
                 \cup (MAX_IMAGES_IN_COMPOSITE..(MAX_IMAGES_IN_COMPOSITE + MaxBeyondCap)) :
          /\ images = Some([k \in 1..n |-> CompositeRecord(k - 1)])
          /\ network \in CompositeInputsOfLen(n)
    /\ fetches = <<>>
    /\ tasks = <<>>
    /\ encoder \in EncoderOutcomes
    /\ canvas = None
    /\ composite = None
    /\ NoToolCall
    /\ call = None

NextComposite ==
    \/ CompositeStart
    \/ ThumbnailResponse
    \/ ThumbnailBody
    \/ ThumbnailResize
    \/ CompositeJoin
    \/ CompositeEncode

SpecComposite == InitComposite /\ [][NextComposite]_vars

(* Properties of the compositor, checked under SpecComposite *)

CompositeCalled == IsSome(images)
InputList == Get(images)

(* number of records the call retains: the first 15 at most *)
RetainedCount == IF Len(InputList) <= 15 THEN Len(InputList) ELSE 15

(* 0-based positions of the retained records whose fetch and resize succeed *)
Succeeding == {i \in 0..(RetainedCount - 1) : network[i + 1] = "ok"}

CompositeDone == pc = "composite_done"
CompositeReturned == CompositeDone /\ Get(composite).kind = "return"
CompositeText == Get(composite).value

(* C6: in one call, a thumbnail fetch is issued only for records at positions  *)
(* 0..14 of the list, each for the thumbnail of the record at its position,    *)
(* and none at all when the list is empty.                                     *)
C6_FetchesOnlyWithinCap ==
    CompositeCalled =>
        /\ \A k \in 1..Len(fetches) :
              /\ fetches[k].position \in 0..14
              /\ fetches[k].position < Len(InputList)
              /\ fetches[k].url.file = InputList[fetches[k].position + 1].url.file
        /\ (Len(InputList) = 0 => fetches = <<>>)

(* a list of 16 records has been processed: 15 fetches, the last for position 14 *)
C6_Witness ==
    /\ CompositeDone
    /\ Len(InputList) = 16
    /\ Len(fetches) = 15
    /\ fetches[15].position = 14

(* C7 as claimed: the call never raises because a thumbnail fetch returned a   *)
(* bad status or threw during fetch or decode; it returns the empty string if  *)
(* and only if no thumbnail succeeded, and with at least one success it        *)
(* returns a non-empty encoded image.                                          *)
C7_EmptyIffNoSuccess ==
    /\ (IsSome(composite) => Get(composite).kind = "return")
    /\ (CompositeDone =>
          /\ (CompositeText = <<>> <=> Succeeding = {})
          /\ (Succeeding # {} => Len(CompositeText) > 0))

CompositeRaised == CompositeDone /\ Get(composite).kind = "throw"

(* C7, amended: the call never raises because a thumbnail fetch returned a bad *)
(* status or threw during fetch, read or decode; it returns the empty string   *)
(* exactly when no thumbnail succeeded; with at least one success it returns a *)
(* non-empty encoded image unless the encoding of the canvas itself fails, and *)
(* then, and only then, the call raises, with the encoder's error.             *)
C7_RaisesOnlyWhenEncodingFails ==
    /\ (IsSome(composite) /\ Get(composite).kind = "throw")
          => /\ encoder = "throws"
             /\ Succeeding # {}
             /\ Get(composite).message = <<"encode failed">>
    /\ (CompositeDone /\ Succeeding = {}) => (CompositeReturned /\ CompositeText = <<>>)
    /\ (CompositeDone /\ Succeeding # {} /\ encoder = "ok")
          => (CompositeReturned /\ Len(CompositeText) > 0)
    /\ (CompositeDone /\ Succeeding # {} /\ encoder = "throws") => CompositeRaised

(* one thumbnail threw in fetch, one could not be decoded, one succeeded: an   *)
(* image is returned                                                           *)
C7_Witness ==
    /\ CompositeReturned
    /\ network = <<"fetch_throws", "ok", "decode_throws">>
    /\ CompositeText # <<>>

(* two of three thumbnails succeeded and the encoding of the canvas failed:    *)
(* the call has raised                                                         *)
C7_EncodingFailed ==
    /\ CompositeRaised
    /\ network = <<"ok", "bad_status", "ok">>
    /\ encoder = "throws"

(* ceil(n / 3) *)
RowsFor(n) == CHOOSE r \in 0..n : 3 * r >= n /\ 3 * (r - 1) < n

IsImageLayer(layer) == "image" \in DOMAIN layer.input
IsLabelLayer(layer) == "label" \in DOMAIN layer.input

(* the layer lies in the cell of grid position i *)
InCellOf(layer, i) ==
    LET top == (i \div 3) * 256 + ((i \div 3) + 1) * 10
        left == (i % 3) * 256 + ((i % 3) + 1) * 10
    IN  /\ top <= layer.top /\ layer.top < top + 256
        /\ left <= layer.left /\ layer.left < left + 256

(* C8: whichever items failed, the canvas size depends only on the number n of *)
(* retained records, each successful item of position i is placed at row       *)
(* i div 3, column i mod 3 with the label i+1, and the cell of a failed item   *)
(* holds nothing.                                                              *)
C8_LayoutByOriginalPosition ==
    (CompositeReturned /\ CompositeText # <<>>) =>
        LET drawn == CompositeText[1]
            layers == drawn.layers
            L == 1..Len(layers)
        IN  /\ drawn.width = 3 * 256 + 4 * 10
            /\ drawn.height = RowsFor(RetainedCount) * 256 + (RowsFor(RetainedCount) + 1) * 10
            /\ \A i \in Succeeding :
                  /\ Cardinality({k \in L : IsImageLayer(layers[k])
                                            /\ layers[k].input.image.file = InputList[i + 1].url.file})
                       = 1
                  /\ \A k \in L :
                        (IsImageLayer(layers[k])
                           /\ layers[k].input.image.file = InputList[i + 1].url.file)
                        => /\ layers[k].top = (i \div 3) * 256 + ((i \div 3) + 1) * 10
                           /\ layers[k].left = (i % 3) * 256 + ((i % 3) + 1) * 10
                  /\ Cardinality({k \in L : IsLabelLayer(layers[k])
                                            /\ layers[k].input.label = i + 1}) = 1
                  /\ \A k \in L :
                        (IsLabelLayer(layers[k]) /\ layers[k].input.label = i + 1)
                        => InCellOf(layers[k], i)
            /\ \A i \in (0..(RetainedCount - 1)) \ Succeeding :
                  \A k \in L : ~InCellOf(layers[k], i)
            /\ \A k \in L : \E i \in Succeeding : InCellOf(layers[k], i)

(* four records, the second failed: the third keeps column 2 of row 0, the     *)
(* fourth is alone in row 1, the canvas has two rows                           *)
C8_Witness ==
    /\ CompositeReturned
    /\ network = <<"ok", "bad_status", "ok", "ok">>
    /\ CompositeText # <<>>
    /\ CompositeText[1].height = 2 * 256 + 3 * 10
    /\ \E k \in 1..Len(CompositeText[1].layers) :
          LET layer == CompositeText[1].layers[k]
          IN  IsImageLayer(layer) /\ layer.input.image.file = "2"
              /\ layer.top = 10 /\ layer.left = 2 * 256 + 3 * 10

(* C9: a failing item neither prevents a sibling's fetch from being issued nor *)
(* discards a sibling's result: once the fetches are issued there is one for   *)
(* every retained record; every item whose fetch and resize succeeded is in    *)
(* the set handed to layout; and layout starts only when every task has        *)
(* settled.                                                                    *)
C9_FailuresIsolated ==
    /\ (CompositeCalled /\ pc # "composite" /\ RetainedCount > 0) =>
          {fetches[k].position : k \in 1..Len(fetches)} = 0..(RetainedCount - 1)
    /\ (\A k \in 1..Len(tasks) :
          (tasks[k].state # "pending" /\ network[k] = "ok")
             => /\ tasks[k].value # <<>>
                /\ tasks[k].value[1].index = k - 1
                /\ tasks[k].value[1].buffer.file = InputList[k].url.file)
    /\ (IsSome(canvas) \/ CompositeDone) =>
          /\ Len(tasks) = RetainedCount
          /\ \A k \in 1..Len(tasks) : tasks[k].state = "fulfilled"
    /\ ((pc = "encoding" \/ CompositeDone) /\ Succeeding # {}) =>
          /\ IsSome(canvas)
          /\ \A i \in Succeeding :
                \E k \in 1..Len(Get(canvas).layers) :
                    LET layer == Get(canvas).layers[k]
                    IN  IsImageLayer(layer)
                        /\ layer.input.image.file = InputList[i + 1].url.file

(* the first item has failed while the second is still being read and the      *)
(* third has already delivered its result                                      *)
C9_Witness ==
    /\ pc = "thumbnails"
    /\ Len(tasks) = 3
    /\ network[1] = "fetch_throws"
    /\ tasks[1].state = "fulfilled" /\ tasks[1].value = <<>>
    /\ tasks[2].state = "pending" /\ tasks[2].at = "arrayBuffer"
    /\ tasks[3].state = "fulfilled" /\ tasks[3].value # <<>>

---------------------------------------------------------------------------
(* One call of the wikimedia_search_images tool *)

MaxToolItems == 3
MaxToolOffset == 1
MaxToolLimit == 2

(* number of items of a source whose items all carry 600-character metadata *)
VerboseItems == 12

InitTool ==
    /\ pc = "search"
    /\ \E offset \in 0..MaxToolOffset, limit \in (1..MaxToolLimit) \cup {LIMIT_MAX},
          incl \in BOOLEAN :
          params = ParamsOf(offset, limit, incl)
    /\ \E fault \in {"none", "network", "http", "bad_json", "error", "error_with_pages"} :
          \/ \E n \in 0..MaxToolItems :
                source = Some([items |-> n, verbose |-> FALSE, fault |-> fault])
          \/ \E n \in {VerboseItems, MAX_RESULTS_LIMIT} :
                source = Some([items |-> n, verbose |-> TRUE, fault |-> fault])
    /\ request = None
    /\ wire = None
    /\ apiResponse = None
    /\ parsed = None
    /\ images = None
    /\ \E few \in [1..MaxToolItems -> {"ok", "bad_status", "decode_throws"}] :
          network = [k \in 1..MAX_IMAGES_IN_COMPOSITE |->
                       IF k <= MaxToolItems THEN few[k] ELSE "ok"]
    /\ fetches = <<>>
    /\ tasks = <<>>
    /\ encoder \in EncoderOutcomes
    /\ canvas = None
    /\ composite = None
    /\ NoToolCall
    /\ call = None

NextTool ==
    \/ FetchIssue
    \/ FetchResponse
    \/ FetchJson
    \/ Parse
    \/ HandlerAfterSearch
    \/ CompositeStart
    \/ ThumbnailResponse
    \/ ThumbnailBody
    \/ ThumbnailResize
    \/ CompositeJoin
    \/ CompositeEncode
    \/ HandlerAfterComposite

SpecTool == InitTool /\ [][NextTool]_vars

(* Properties of the tool handler, checked under SpecTool *)

Responded == pc = "responded"
Response == Get(response)

TextParts(r) == {k \in 1..Len(r.content) : r.content[k].type = "text"}
ImageParts(r) == {k \in 1..Len(r.content) : r.content[k].type = "image"}

WireHasError == IsSome(wire) /\ Get(wire).error # <<>>
WireErrorInfo == Get(wire).error[1].info

Contains(pieces, piece) == \E k \in 1..Len(pieces) : pieces[k] = piece

(* C5: if the raw document carries an error field, parseWikimediaResponse      *)
(* throws an error carrying the source's message and returns no records,       *)
(* whether or not the document has pages; the tool call ends in an error       *)
(* response (isError) whose text contains that message, never in a listing.    *)
C5_ErrorDocumentFails ==
    WireHasError =>
        /\ IsSome(parsed) =>
              /\ Get(parsed).kind = "throw"
              /\ Contains(Get(parsed).message, WireErrorInfo)
        /\ content = <<>>
        /\ images = None
        /\ Responded =>
              /\ Response.isError = TRUE
              /\ Len(Response.content) = 1
              /\ Response.content[1].type = "text"
              /\ Contains(Response.content[1].text.message, WireErrorInfo)
              /\ Response.content[1].text.listing = <<>>

(* the source sent an error object together with pages, and the call has ended *)
C5_Witness ==
    /\ Responded
    /\ WireHasError
    /\ Get(wire).query # <<>>
    /\ Len(Get(wire).query[1].pages[1]) >= 2
    /\ Response.isError

SearchSucceeded == IsSome(parsed) /\ Get(parsed).kind = "return"

(* some thumbnail among the first 15 records of the result can be fetched *)
SomeThumbnailGood ==
    \E k \in 1..Len(Get(parsed).images) : k <= 15 /\ network[k] = "ok"

(* C10 as claimed: after a successful search the response has a text part, an  *)
(* image part whenever include_thumbnails is true and there is at least one    *)
(* record, and no image part when include_thumbnails is false.                 *)
C10_ImagePartWheneverRequested ==
    (Responded /\ SearchSucceeded) =>
        /\ TextParts(Response) # {}
        /\ (params.include_thumbnails /\ Len(Get(parsed).images) >= 1)
              => \E k \in ImageParts(Response) :
                    /\ Response.content[k].mimeType = "image/jpeg"
                    /\ Response.content[k].data = Get(composite).value
        /\ (~params.include_thumbnails => ImageParts(Response) = {})

(* the composite is asked for and its canvas is handed to the encoder *)
CompositeEncoded ==
    /\ params.include_thumbnails
    /\ Len(Get(parsed).images) >= 1
    /\ formatSearchResults(Get(parsed)).length <= 25000
    /\ SomeThumbnailGood

(* C10, amended: after a successful search the response has one text part; it  *)
(* has an image part (image/jpeg, the composite's non-empty output) exactly    *)
(* when include_thumbnails is true, there is at least one record, the listing  *)
(* is within CHARACTER_LIMIT, at least one of the first 15 thumbnails could be *)
(* fetched and resized, and the canvas could be encoded; otherwise it has      *)
(* none; when the canvas cannot be encoded the response is the error response  *)
(* with the encoder's message and without the listing.                         *)
C10_ImagePartWhenCompositeNonEmpty ==
    (Responded /\ SearchSucceeded) =>
        /\ TextParts(Response) = {1}
        /\ Cardinality(ImageParts(Response)) <= 1
        /\ (ImageParts(Response) # {} <=> (CompositeEncoded /\ encoder = "ok"))
        /\ \A k \in ImageParts(Response) :
              /\ Response.content[k].mimeType = "image/jpeg"
              /\ Response.content[k].data = Get(composite).value
              /\ Response.content[k].data # <<>>
        /\ (Response.isError <=> (CompositeEncoded /\ encoder = "throws"))
        /\ Response.isError =>
              /\ Response.content[1].text.listing = <<>>
              /\ Contains(Response.content[1].text.message, "encode failed")

(* three records, one thumbnail failed: a listing and an image are returned *)
C10_Witness ==
    /\ Responded
    /\ SearchSucceeded
    /\ params.include_thumbnails
    /\ Len(Get(parsed).images) = 3
    /\ network[2] = "bad_status"
    /\ Len(Response.content) = 2
    /\ Response.content[2].type = "image"

(* reachability of the handler's other branches *)
TruncatedReached ==
    /\ Responded /\ SearchSucceeded
    /\ params.include_thumbnails
    /\ formatSearchResults(Get(parsed)).length > 25000
    /\ ImageParts(Response) = {}
AllThumbnailsFailedReached ==
    /\ Responded /\ SearchSucceeded
    /\ IsSome(composite) /\ Get(composite).value = <<>>
    /\ ImageParts(Response) = {}

---------------------------------------------------------------------------
(* getAspectRatio called on its own on a pair of integers *)

MaxDimension == 40

(* the dimensions tried: every pair from -1 to MaxDimension, and some sizes of *)
(* real images                                                                *)
AspectInputs ==
    ((-1..MaxDimension) \X (-1..MaxDimension))
    \cup {<<1920, 817>>, <<1920, 1080>>, <<4000, 3000>>, <<3024, 4032>>, <<1110, 180>>}

NoSearch ==
    /\ params = ParamsOf(0, 1, FALSE)
    /\ source = None
    /\ request = None
    /\ wire = None
    /\ apiResponse = None
    /\ parsed = None

InitAspect ==
    /\ pc = "call"
    /\ \E args \in AspectInputs :
          call = Some([fn |-> "getAspectRatio", args |-> args, value |-> None])
    /\ NoSearch
    /\ NoComposite
    /\ NoToolCall

(* one call getAspectRatio(width, height) *)
GetAspectRatioCall ==
    /\ pc = "call"
    /\ Get(call).fn = "getAspectRatio"
    /\ call' = Some([Get(call) EXCEPT
                       !.value = Some(getAspectRatio(Get(call).args[1], Get(call).args[2]))])
    /\ pc' = "called"
    /\ UNCHANGED <<searchVars, compositeVars, toolVars>>

NextAspect == GetAspectRatioCall

SpecAspect == InitAspect /\ [][NextAspect]_vars

(* Properties of getAspectRatio, checked under SpecAspect *)

AspectCalled == pc = "called" /\ Get(call).fn = "getAspectRatio"
AspectWidth == Get(call).args[1]
AspectHeight == Get(call).args[2]
AspectLabel == Get(Get(call).value)

(* the greatest common divisor of two positive integers *)
CommonDivisor(a, b) ==
    CHOOSE d \in 1..a : a % d = 0 /\ b % d = 0
                        /\ \A d2 \in 1..a : (a % d2 = 0 /\ b % d2 = 0) => d2 <= d

(* round(width * h / height) clamped to [1, 21], in exact arithmetic *)
ClaimedCandidate(width, height, h) ==
    LET r == (2 * width * h + height) \div (2 * height)
    IN  IF r < 1 THEN 1 ELSE IF r > 21 THEN 21 ELSE r

(* |w/h - width/height| * (h * height) *)
ScaledDistance(width, height, w, h) ==
    IF w * height >= width * h THEN w * height - width * h ELSE width * h - w * height

(* the candidate of h1 is strictly nearer to width/height than that of h2 *)
Nearer(width, height, h1, h2) ==
    ScaledDistance(width, height, ClaimedCandidate(width, height, h1), h1) * h2
      < ScaledDistance(width, height, ClaimedCandidate(width, height, h2), h2) * h1

(* C12: getAspectRatio returns "unknown" when width <= 0 or height <= 0;      *)
(* otherwise, with g the gcd, the exact label (width/g):(height/g) when both  *)
(* reduced components are <= 21; otherwise the label with the approximation   *)
(* sign and the pair (w, h) that, among the candidates h = 1..21,             *)
(* w = round(width*h/height) clamped to [1, 21], minimizes                    *)
(* |w/h - width/height|, the smallest h winning ties.                         *)
C12_AspectRatioLabel ==
    AspectCalled =>
        IF AspectWidth <= 0 \/ AspectHeight <= 0
        THEN AspectLabel.prefix = "unknown"
        ELSE LET g == CommonDivisor(AspectWidth, AspectHeight)
             IN  IF AspectWidth \div g <= 21 /\ AspectHeight \div g <= 21
                 THEN AspectLabel = [prefix |-> "", w |-> AspectWidth \div g,
                                     h |-> AspectHeight \div g]
                 ELSE /\ AspectLabel.prefix = "~"
                      /\ AspectLabel.h \in 1..21
                      /\ AspectLabel.w
                           = ClaimedCandidate(AspectWidth, AspectHeight, AspectLabel.h)
                      /\ \A h \in 1..21 :
                            /\ ~Nearer(AspectWidth, AspectHeight, h, AspectLabel.h)
                            /\ h < AspectLabel.h
                                 => Nearer(AspectWidth, AspectHeight, AspectLabel.h, h)

(* C12 without the rule for ties: the label is "unknown", exact, or the pair   *)
(* of a candidate than which no candidate is strictly nearer; the              *)
(* approximation sign appears exactly when a reduced component exceeds 21.     *)
C12_LabelIsANearestCandidate ==
    AspectCalled =>
        IF AspectWidth <= 0 \/ AspectHeight <= 0
        THEN AspectLabel.prefix = "unknown"
        ELSE LET g == CommonDivisor(AspectWidth, AspectHeight)
             IN  IF AspectWidth \div g <= 21 /\ AspectHeight \div g <= 21
                 THEN AspectLabel = [prefix |-> "", w |-> AspectWidth \div g,
                                     h |-> AspectHeight \div g]
                 ELSE /\ AspectLabel.prefix = "~"
                      /\ AspectLabel.h \in 1..21
                      /\ AspectLabel.w
                           = ClaimedCandidate(AspectWidth, AspectHeight, AspectLabel.h)
                      /\ \A h \in 1..21 :
                            ~Nearer(AspectWidth, AspectHeight, h, AspectLabel.h)

(* 37x6: the candidates 6:1 and 19:3 are equally far from 37/6, and the label  *)
(* returned is that of the later one                                           *)
C12_LaterTiedPairReturned ==
    /\ AspectCalled
    /\ AspectWidth = 37 /\ AspectHeight = 6
    /\ AspectLabel = [prefix |-> "~", w |-> 19, h |-> 3]

---------------------------------------------------------------------------
(* parseWikimediaResponse on a document of one page, over the values its      *)
(* image-info entry may carry                                                 *)

MaxExcess == 2
MaxNegative == 2

Letters(n) == IF n = 0 THEN <<>> ELSE <<Run("a", n)>>

(* the tag <b> *)
Tag == <<Run("<", 1), Run("b", 1), Run(">", 1)>>

(* texts around a cap: plain ones, ones that open with a tag or carry one      *)
(* across the cap, and short ones with stray or nested angle brackets          *)
FieldTexts(cap) ==
    {Letters(n) : n \in {0, 1} \cup ((cap - MaxExcess)..(cap + MaxExcess))}
    \cup {Tag \o Letters(n) : n \in {0} \cup ((cap - MaxExcess)..(cap + MaxExcess))}
    \cup {Letters(cap - 1) \o Tag \o Letters(n) : n \in 1..MaxExcess}
    \cup { <<Run("<", 2), Run("b", 1), Run(">", 1), Run("b", 1), Run(">", 1)>>,
           <<Run("a", 1), Run("<", 1)>>,
           <<Run("a", 1), Run(">", 1), Run("b", 1)>>,
           <<Run(">", 2), Run("a", 1), Run("<", 2)>>,
           <<Run("<", 1), Run("a", 1), Run(">", 2), Run("<", 1), Run("b", 1)>>,
           <<Run("<", 1), Run("b", 1), Run(">", 1), Run("a", 3), Run("<", 1),
             Run("/", 1), Run("b", 1), Run(">", 1)>> }

NoMetadata ==
    [ ObjectName |-> None, DateTimeOriginal |-> None, ImageDescription |-> None,
      Credit |-> None, Artist |-> None, LicenseShortName |-> None, License |-> None,
      UsageTerms |-> None, LicenseUrl |-> None ]

(* metadata with one text field set *)
OneFieldMetadata ==
    {[NoMetadata EXCEPT ![field] = Some(text)] :
        field \in {"ObjectName", "DateTimeOriginal", "ImageDescription", "Credit",
                   "Artist", "UsageTerms"},
        text \in FieldTexts(500)}
    \cup {[NoMetadata EXCEPT ![field] = Some(text)] :
            field \in {"LicenseShortName", "License"}, text \in FieldTexts(100)}

(* metadata with every combination of absent, empty and set license fields *)
LicenseMetadata ==
    {[NoMetadata EXCEPT !.LicenseShortName = short, !.License = full,
                        !.UsageTerms = terms, !.LicenseUrl = url] :
        short \in {None, Some(<<>>), Some(<<Run("c", 3)>>)},
        full  \in {None, Some(<<>>), Some(<<Run("d", 4)>>)},
        terms \in {None, Some(<<>>), Some(Tag), Some(Letters(4)), Some(Tag \o Letters(4))},
        url   \in {None, Some(<<>>), Some(<<Run("u", 40)>>)}}

(* a raw dimension: absent, negative, zero or positive *)
RawDimensions == {None} \cup {Some(d) : d \in (-MaxNegative)..1} \cup {Some(600), Some(800)}

FieldInfos ==
    {[GoodInfo("f1") EXCEPT !.width = w, !.height = h] :
        w \in RawDimensions, h \in RawDimensions}
    \cup {[GoodInfo("f1") EXCEPT !.extmetadata = Some(meta)] :
            meta \in OneFieldMetadata \cup LicenseMetadata \cup {VerboseMetadata}}

InitFields ==
    /\ pc = "parse"
    /\ params = ParamsOf(0, 1, FALSE)
    /\ source = None
    /\ request = None
    /\ \E info \in FieldInfos :
          LET doc == [ error |-> None,
                       query |-> Some([pages |->
                                   Some(<<[index |-> Some(1), imageinfo |-> Some(<<info>>)]>>)]) ]
          IN  wire = Some(doc) /\ apiResponse = Some(doc)
    /\ parsed = None
    /\ NoComposite
    /\ NoToolCall
    /\ call = None

NextFields == Parse

SpecFields == InitFields /\ [][NextFields]_vars

(* Properties of the emitted records, checked under SpecFields *)

RawInfo == WirePages[1].imageinfo[1][1]
RawMeta(field) == IF RawInfo.extmetadata = <<>> THEN <<>> ELSE RawInfo.extmetadata[1][field]
Emitted == Returned /\ Len(Result.images) = 1
Record == Result.images[1]

(* C13: every emitted record, whatever raw width and height the source sent   *)
(* (absent, zero, negative or positive), has width >= 1 and height >= 1 and   *)
(* carries an aspect-ratio label derived from them.                           *)
C13_DimensionsPositive ==
    Returned =>
        \A i \in 1..Len(Result.images) :
            /\ Result.images[i].width >= 1
            /\ Result.images[i].height >= 1
            /\ Result.images[i].aspectRatio.prefix # "unknown"

(* C13 as far as it holds: an emitted record has neither dimension absent or  *)
(* zero, and its label is "unknown" exactly when one of them is negative.     *)
C13_DimensionsNotZero ==
    Returned =>
        \A i \in 1..Len(Result.images) :
            /\ Result.images[i].width # 0
            /\ Result.images[i].height # 0
            /\ (Result.images[i].aspectRatio.prefix = "unknown"
                  <=> (Result.images[i].width < 0 \/ Result.images[i].height < 0))

(* a page with a negative width has been emitted, its label is "unknown" *)
C13_NegativeWidthEmitted ==
    /\ Emitted
    /\ RawInfo.width = Some(-1)
    /\ Record.width = -1
    /\ Record.aspectRatio.prefix = "unknown"

(* the run k of t lies after a "<" with no ">" in between *)
InsideTag(t, k) ==
    \E j \in 1..(k - 1) : t[j].ch = "<" /\ \A q \in (j + 1)..(k - 1) : t[q].ch # ">"

ClosedLater(t, k) == \E q \in (k + 1)..Len(t) : t[q].ch = ">"

(* how many characters of run k are outside every "<...>" *)
KeptOfRun(t, k) ==
    IF t[k].ch = ">" THEN (IF InsideTag(t, k) THEN t[k].n - 1 ELSE t[k].n)
    ELSE IF t[k].ch = "<" THEN (IF ClosedLater(t, k) THEN 0 ELSE t[k].n)
    ELSE IF InsideTag(t, k) /\ ClosedLater(t, k) THEN 0 ELSE t[k].n

(* the text t from run k on with every "<...>" removed *)
RECURSIVE WithoutTagsFrom(_, _)
WithoutTagsFrom(t, k) ==
    IF k > Len(t) THEN <<>>
    ELSE Concat(IF KeptOfRun(t, k) = 0 THEN <<>> ELSE <<Run(t[k].ch, KeptOfRun(t, k))>>,
                WithoutTagsFrom(t, k + 1))

WithoutTags(t) == WithoutTagsFrom(t, 1)

(* t if it has at most cap characters, else its first cap characters and "..." *)
Capped(t, cap) ==
    IF TextLen(t) <= cap THEN t ELSE Concat(Substring(t, cap), <<Run(".", 3)>>)

HasCompleteTag(t) ==
    \E j \in 1..Len(t) : \E q \in (j + 1)..Len(t) : t[j].ch = "<" /\ t[q].ch = ">"

(* the emitted field is the raw one with its tags removed, then capped *)
StrippedThenCapped(emitted, raw, cap) ==
    /\ IsSome(emitted) =>
          /\ IsSome(raw)
          /\ Get(emitted) = Capped(WithoutTags(Get(raw)), cap)
          /\ ~HasCompleteTag(Get(emitted))
    /\ (IsSome(raw) /\ WithoutTags(Get(raw)) # <<>>) => IsSome(emitted)

(* the emitted field is the raw one capped *)
OnlyCapped(emitted, raw, cap) ==
    /\ IsSome(emitted) => (IsSome(raw) /\ Get(emitted) = Capped(Get(raw), cap))
    /\ (IsSome(raw) /\ Get(raw) # <<>>) => IsSome(emitted)

EmittedLicenseField(field) ==
    IF Record.license = <<>> THEN <<>> ELSE Record.license[1][field]

(* C14: date, description, credit, artist and the license usage terms are     *)
(* emitted with every tag removed first and the cap applied after: at most    *)
(* 500 characters unchanged, otherwise the first 500 followed by "...";       *)
(* caption is capped at 500 and the license name at 100 without tag removal;  *)
(* no emitted stripped field contains a complete tag.                         *)
C14_StripThenCap ==
    Emitted =>
        /\ StrippedThenCapped(Record.date, RawMeta("DateTimeOriginal"), 500)
        /\ StrippedThenCapped(Record.description, RawMeta("ImageDescription"), 500)
        /\ StrippedThenCapped(Record.credit, RawMeta("Credit"), 500)
        /\ StrippedThenCapped(Record.artist, RawMeta("Artist"), 500)
        /\ StrippedThenCapped(EmittedLicenseField("usageTerms"), RawMeta("UsageTerms"), 500)
        /\ OnlyCapped(Record.caption, RawMeta("ObjectName"), 500)
        /\ OnlyCapped(EmittedLicenseField("name"),
                      IF RawMeta("LicenseShortName") \notin {<<>>, <<<<>>>>}
                      THEN RawMeta("LicenseShortName") ELSE RawMeta("License"), 100)

(* a description of 502 characters, a tag and 499 letters, is emitted as its  *)
(* 499 letters: the tag went before the cap was applied                       *)
C14_Witness ==
    /\ Emitted
    /\ RawMeta("ImageDescription") = Some(Tag \o Letters(499))
    /\ Record.description = Some(Letters(499))

NonEmpty(o) == o # <<>> /\ o[1] # <<>>

(* C15: an emitted record has a license key if and only if one of its license *)
(* fields is non-empty: the name (the short name, otherwise the full name),   *)
(* the usage terms after tag removal, or the url; an emitted license object   *)
(* never has all of its fields empty or absent.                               *)
C15_LicenseKeyIffPopulated ==
    Emitted =>
        /\ Record.license # <<>>
             <=> \/ NonEmpty(RawMeta("LicenseShortName"))
                 \/ NonEmpty(RawMeta("License"))
                 \/ (RawMeta("UsageTerms") # <<>>
                       /\ WithoutTags(RawMeta("UsageTerms")[1]) # <<>>)
                 \/ NonEmpty(RawMeta("LicenseUrl"))
        /\ Record.license # <<>>
             => \E field \in {"name", "usageTerms", "url"} :
                    NonEmpty(Record.license[1][field])
        /\ RawInfo.extmetadata = <<>> => Record.license = <<>>

(* the only license field sent is usage terms that consist of a tag: the      *)
(* record has no license key                                                  *)
C15_Witness ==
    /\ Emitted
    /\ RawMeta("UsageTerms") = Some(Tag)
    /\ RawMeta("LicenseShortName") = None /\ RawMeta("License") = Some(<<>>)
    /\ RawMeta("LicenseUrl") = None
    /\ Record.license = None

---------------------------------------------------------------------------
(* generateThumbnailComposite on one record, over its width and height *)

MaxThumbWidth == 6
MaxThumbHeight == 12

(* small sizes, and sizes of tall and of real images *)
ThumbnailSizes ==
    ((1..MaxThumbWidth) \X (1..MaxThumbHeight))
    \cup {<<1, 511>>, <<1, 512>>, <<1, 513>>, <<1, 600>>, <<3, 1536>>, <<3, 1537>>,
          <<600, 800>>, <<800, 600>>, <<3024, 4032>>, <<817, 1920>>}

InitThumbnail ==
    /\ pc = "composite"
    /\ NoSearch
    /\ \E size \in ThumbnailSizes :
          images = Some(<<PlainRecord(1, ThumbUrl(THUMBNAIL_SIZE, "0"), size[1], size[2],
                                      "https://commons.wikimedia.org/wiki/File:Cat03.jpg")>>)
    /\ network \in [1..1 -> {"ok", "bad_status"}]
    /\ fetches = <<>>
    /\ tasks = <<>>
    /\ encoder \in EncoderOutcomes
    /\ canvas = None
    /\ composite = None
    /\ NoToolCall
    /\ call = None

NextThumbnail ==
    \/ CompositeStart
    \/ ThumbnailResponse
    \/ ThumbnailBody
    \/ ThumbnailResize
    \/ CompositeJoin
    \/ CompositeEncode

SpecThumbnail == InitThumbnail /\ [][NextThumbnail]_vars

(* Properties of the requested width, checked under SpecThumbnail *)

RequestedWidth(k) == fetches[k].url.px[1]
RequestedFor(k) == InputList[fetches[k].position + 1]

(* round(a / b) for positive integers, a half rounded up *)
RoundedQuotient(a, b) ==
    CHOOSE r \in 0..a : 2 * b * r <= 2 * a + b /\ 2 * a + b < 2 * b * (r + 1)

(* C16: for a record with positive width and height the width requested in    *)
(* the rewritten URL is an integer from 1 to 256: exactly 256 when            *)
(* height <= width, and round(width * 256 / height) when height > width.      *)
C16_RequestedWidthFrom1To256 ==
    \A k \in 1..Len(fetches) :
        (RequestedFor(k).width >= 1 /\ RequestedFor(k).height >= 1) =>
            /\ RequestedWidth(k) >= 1
            /\ RequestedWidth(k) <= 256
            /\ RequestedFor(k).height <= RequestedFor(k).width => RequestedWidth(k) = 256
            /\ RequestedFor(k).height > RequestedFor(k).width
                 => RequestedWidth(k)
                      = RoundedQuotient(RequestedFor(k).width * 256, RequestedFor(k).height)

(* C16 without the lower bound: the requested width is at most 256, is 256    *)
(* when height <= width and round(width * 256 / height) otherwise.            *)
C16_RequestedWidthAtMost256 ==
    \A k \in 1..Len(fetches) :
        (RequestedFor(k).width >= 1 /\ RequestedFor(k).height >= 1) =>
            /\ RequestedWidth(k) >= 0
            /\ RequestedWidth(k) <= 256
            /\ RequestedFor(k).height <= RequestedFor(k).width => RequestedWidth(k) = 256
            /\ RequestedFor(k).height > RequestedFor(k).width
                 => RequestedWidth(k)
                      = RoundedQuotient(RequestedFor(k).width * 256, RequestedFor(k).height)

(* the thumbnail of a record 1 wide and 513 high is requested 0 pixels wide *)
C16_ZeroWidthRequested ==
    /\ Len(fetches) = 1
    /\ RequestedFor(1).width = 1 /\ RequestedFor(1).height = 513
    /\ fetches[1].url = [px |-> Some(0), file |-> "0"]

---------------------------------------------------------------------------
(* One generateThumbnailComposite call in which every step that can run does  *)
(* run: the call starts, every response (or failure) of a fetch that was       *)
(* issued arrives, and the continuation of the join is scheduled               *)

(* the record at 0-based position i, 800 wide and 600 high *)
LandscapeRecord(i) ==
    PlainRecord(i + 1, ThumbUrl(THUMBNAIL_SIZE, ToString(i)), 800, 600,
                "https://commons.wikimedia.org/wiki/File:Cat03.jpg")

(* the calls on short lists, with every outcome of every thumbnail; whether a  *)
(* call completes does not depend on the sizes of the records                  *)
InitCompositeLive ==
    /\ pc = "composite"
    /\ NoSearch
    /\ \E n \in 0..MaxSmallList :
          /\ images = Some([k \in 1..n |-> LandscapeRecord(k - 1)])
          /\ network \in CompositeInputsOfLen(n)
    /\ fetches = <<>>
    /\ tasks = <<>>
    /\ encoder \in EncoderOutcomes
    /\ canvas = None
    /\ composite = None
    /\ NoToolCall
    /\ call = None

SpecCompositeLive ==
    /\ InitCompositeLive
    /\ [][NextComposite]_vars
    /\ WF_vars(CompositeStart)
    /\ WF_vars(ThumbnailResponse)
    /\ WF_vars(ThumbnailBody)
    /\ WF_vars(ThumbnailResize)
    /\ WF_vars(CompositeJoin)
    /\ WF_vars(CompositeEncode)

(* C17: a call, once issued, eventually returns or fails, provided every       *)
(* retained item's fetch eventually settles; and it has not completed while a  *)
(* fetch it issued is still pending.                                           *)
C17_CallCompletesAfterAllSettle ==
    /\ (pc = "composite") ~> (pc = "composite_done")
    /\ [](pc = "composite_done"
            => /\ IsSome(composite)
               /\ Len(fetches) = RetainedCount
               /\ Len(tasks) = Len(fetches)
               /\ \A k \in 1..Len(tasks) : tasks[k].state # "pending")
    /\ []((\E k \in 1..Len(tasks) : tasks[k].state = "pending") => composite = None)

(* a call on three records has completed, after a fetch that threw, a body     *)
(* that could not be read and a thumbnail that was resized                     *)
C17_Witness ==
    /\ pc = "composite_done"
    /\ Len(tasks) = 3
    /\ network = <<"fetch_throws", "body_throws", "ok">>
    /\ \A k \in 1..3 : tasks[k].state = "fulfilled"
    /\ IsSome(composite)

(* the successful positions in ascending order *)
SucceedingInOrder ==
    [k \in 1..Cardinality(Succeeding) |->
        CHOOSE i \in Succeeding : Cardinality({j \in Succeeding : j < i}) = k - 1]

(* what a layer shows and where *)
Placement(layer) ==
    IF IsImageLayer(layer) THEN <<"image", layer.input.image.file, layer.top, layer.left>>
    ELSE <<"label", layer.input.label, layer.top, layer.left>>

(* the placements fixed by the list and the outcomes alone: the images of the  *)
(* successful positions in ascending order, then their labels                  *)
PlacementsByPosition ==
    [k \in 1..Cardinality(Succeeding) |->
        LET i == SucceedingInOrder[k]
        IN  <<"image", InputList[i + 1].url.file,
              (i \div 3) * 256 + ((i \div 3) + 1) * 10, (i % 3) * 256 + ((i % 3) + 1) * 10>>]
    \o [k \in 1..Cardinality(Succeeding) |->
        LET i == SucceedingInOrder[k]
        IN  <<"label", i + 1,
              (i \div 3) * 256 + ((i \div 3) + 1) * 10 + 5,
              (i % 3) * 256 + ((i % 3) + 1) * 10 + 5>>]

(* C18: for a fixed record list and a fixed outcome per item, the result of    *)
(* the call (which items are placed, at which cell, with which label, in       *)
(* which layer order) is the same for every order in which the tasks           *)
(* complete: the canvas handed to the encoder and the value returned are the   *)
(* ones fixed by the list and the outcomes.                                    *)
C18_ResultIndependentOfOrder ==
    /\ IsSome(canvas) =>
          /\ Succeeding # {}
          /\ Get(canvas).width = 3 * 256 + 4 * 10
          /\ Get(canvas).height
               = RowsFor(RetainedCount) * 256 + (RowsFor(RetainedCount) + 1) * 10
          /\ [k \in 1..Len(Get(canvas).layers) |-> Placement(Get(canvas).layers[k])]
               = PlacementsByPosition
    /\ CompositeDone =>
          IF Succeeding = {} THEN CompositeReturned /\ CompositeText = <<>>
          ELSE IF encoder = "throws" THEN Get(composite).kind = "throw"
          ELSE CompositeReturned /\ CompositeText = <<Get(canvas)>>

(* three records of which the middle one fails to decode: two images, then     *)
(* two labels, whatever the order of completion                                *)
C18_Witness ==
    /\ CompositeDone
    /\ network = <<"ok", "decode_throws", "ok">>
    /\ Len(CompositeText) = 1
    /\ Len(CompositeText[1].layers) = 4
    /\ Placement(CompositeText[1].layers[2]) = <<"image", "2", 10, 2 * 256 + 3 * 10>>
    /\ Placement(CompositeText[1].layers[4]) = <<"label", 3, 15, 2 * 256 + 3 * 10 + 5>>

---------------------------------------------------------------------------
(* The length of the text returned by the tool, checked under SpecTool *)

(* C19: the text part of every response of the handler is at most             *)
(* CHARACTER_LIMIT (25000) characters long: when the formatted listing        *)
(* exceeds the limit the handler formats the first half of the records again, *)
(* and the text it then returns, listing and warning, is within the limit.    *)
C19_TextWithinCharacterLimit ==
    Responded =>
        \A k \in TextParts(Response) : Response.content[k].text.length <= 25000

(* C19 as far as it holds: a listing that is returned whole (the response is   *)
(* not the error response) is within the limit, and a listing over the limit  *)
(* is answered with the first half of the records, rounded down, and nothing  *)
(* else.                                                                      *)
C19_WholeListingWithinLimit ==
    (Responded /\ SearchSucceeded /\ Len(Get(parsed).images) > 0 /\ ~Response.isError) =>
        LET listed == Response.content[1].text.listing
            all == Get(parsed).images
        IN  IF formatSearchResults(Get(parsed)).length <= 25000
            THEN listed = all /\ Response.content[1].text.length <= 25000
            ELSE /\ Len(Response.content) = 1
                 /\ 2 * Len(listed) <= Len(all) /\ Len(all) <= 2 * Len(listed) + 1
                 /\ \A k \in 1..Len(listed) : listed[k] = all[k]

(* fifty records with long metadata: the text returned lists twenty-five of   *)
(* them and is longer than the limit                                          *)
C19_HalfStillOverLimit ==
    /\ Responded /\ SearchSucceeded
    /\ Len(Get(parsed).images) = 50
    /\ Len(Response.content[1].text.listing) = 25
    /\ Response.content[1].text.length > 25000

=============================================================================
